---- MODULE Spec2Model ----
(***************************************************************************)
(* Crawl-and-ingest orchestration of the indextr scrapers.                 *)
(*                                                                         *)
(*   SpecPartition  the chunking of a work list over worker processes      *)
(*                  (hybrid_scrape_articles, scrape_all_articles_SIMPLE)   *)
(*   SpecWorker     one worker process: the semaphore-gated async fetches  *)
(*                  (process_article_chunk_async_standalone,               *)
(*                   scrape_all_issues_parallel)                           *)
(*   SpecRun        the journal loop of collect_all_dergipark_data_HYBRID  *)
(*   SpecCsv        the university loop of scrape_all_universities with    *)
(*                  its incremental _save_csv                              *)
(*                                                                         *)
(* Every specification owns a group of variables and leaves the other      *)
(* groups at their idle value.                                             *)
(***************************************************************************)
EXTENDS Integers, Sequences, FiniteSets, TLC

\* ------------------------------------------------------------------ bounds
\* Longest work list handed to a partitioner.
MaxLen == 4
\* Largest configured number of worker processes (num_processes).
MaxProcs == 3
\* Most URLs in the chunk of one worker process.
MaxTasks == 3
\* Largest semaphore limit (max_concurrent_per_process) tried.
MaxConcurrent == 2
\* Largest configured retry_count tried.
MaxRetry == 1
\* Journals discovery returns at most.
MaxJournals == 3
\* Journals a checkpoint left by an earlier run marks as done, at most.
MaxPrior == 1
\* Distinct article URLs that exist.
MaxUrls == 3
\* Longest URL list handed to hybrid_scrape_articles on its own.
MaxPoolUrls == 3
\* Longest article overview one journal yields.
MaxOverview == 2
\* num_processes of the scraper that runs the journal loop.
RunProcesses == 2
\* Flush threshold. The source sets BATCH_SAVE_SIZE = 1000
\* (dergipark_hybric.py:35); the model runs the same test with a small one.
BATCH_SAVE_SIZE == 2
BackupEvery == 2
MaxFlushes == 5
MaxExtra == 1
\* Checkpoint interval. The source tests processed_journals % 10
\* (dergipark_hybric.py:383); the model runs the same test with a small one.
CheckpointEvery == 2
\* The estimated unit count of a heavy item; a light one counts 1.
HeavyUnits == 3
\* Largest configured imbalance tolerance tried.
MaxTolerance == 2
\* len(years) at most. The source has year_range = range(1980, 2026)
\* (holy_yoktez_scraper.py:21); the model runs the same loop over fewer years.
MaxYears == 3
\* Largest year_batch_size tried.
MaxYearBatch == 2
\* Distinct journal slugs that exist.
MaxSlugs == 3
\* Most journal links one journal-list page holds.
MaxLinks == 2
\* page_num = 2: the first journal-list page requested.
FirstExplorePage == 2
\* MAX_JOURNAL_EXPLORE_PAGES = 3: the last journal-list page requested.
MAX_JOURNAL_EXPLORE_PAGES == 3
\* Universities per phase (capped / not capped) in the counts CSV.
MaxUnis == 2
\* Most theses one university yields.
MaxTheses == 2
\* Longest thesis list and largest batch_size of the PDF-URL extraction.
MaxPdfTheses == 3
MaxPdfBatch == 2
MaxCtxUnis == 2
MaxRequests == 3
MaxKeyword == 3
MaxText == 3
MinDetectLen == 2
MinKeyword == 3

\* ----------------------------------------------------------------- helpers
Min(a, b) == IF a < b THEN a ELSE b

\* math.ceil(a / b) for a >= 0, b >= 1
Ceil(a, b) == (a + b - 1) \div b

Range(s) == {s[i] : i \in 1..Len(s)}

\* Sequences over S of length at most n without a repeated element.
InjSeqs(S, n) ==
    {s \in UNION {[1..k -> S] : k \in 0..n} :
        \A i, j \in 1..Len(s) : i # j => s[i] # s[j]}

\* [x for ys in seqs for x in ys]
RECURSIVE Flatten(_)
Flatten(seqs) ==
    IF seqs = <<>> THEN <<>> ELSE Head(seqs) \o Flatten(Tail(seqs))

\* ------------------------------------------------------------- variables
VARIABLES
    \* --- partitioning ---
    part_pc,          \* "off" | "call" | "done" | "empty" | "error"
    part_fn,          \* "hybrid" | "simple": which function partitions
    work_list,        \* all_article_urls, or page_numbers
    num_processes,    \* self.num_processes
    unit_count,       \* per position of work_list: the estimated unit count
                      \* of that item (read by no code)
    imbalance_tolerance,  \* the configured imbalance tolerance (read by no code)
    url_chunks        \* url_chunks / the chunks of process_args

partVars == <<part_pc, part_fn, work_list, num_processes, unit_count,
              imbalance_tolerance, url_chunks>>

VARIABLES
    \* --- one worker process (one asyncio event loop) ---
    wk_pc,            \* "off" | "run" | "gathered"
    wk_kind,          \* "article" | "issue": which coroutine the tasks run
    max_concurrent,   \* the limit the semaphore was built with
    retry_count,      \* the configured retry_count (read by no code)
    sem_value,        \* asyncio.Semaphore._value
    task_pc,          \* per task: "created" | "fetching" | "done"
    task_result,      \* per task: "pending" | "record" | "None" | "[]"
    task_outcome,     \* per task: how its fetch ended
    attempts,         \* per task: session.get calls issued
    completion_order, \* the tasks in the order their fetches completed
    successful_results  \* what the chunk returns (task numbers of its records)

workVars == <<wk_pc, wk_kind, max_concurrent, retry_count, sem_value, task_pc,
              task_result, task_outcome, attempts, completion_order,
              successful_results>>

VARIABLES
    \* --- the journal loop of collect_all_dergipark_data_HYBRID ---
    run_pc,             \* "off" | "loop" | "scrape" | "checkpoint" | "flush" | "done"
    journals_found,     \* len(journal_slugs_and_titles)
    prior_done,         \* journals 1..prior_done are marked done by the
                        \* checkpoint an earlier run left behind
    j_idx,              \* position of the loop: journals 1..j_idx were started
    seen_article_urls,  \* seen_article_urls
    new_article_urls,   \* new_article_urls of the current journal
    all_articles_data,  \* all_articles_data: the in-memory batch
    processed_journals, \* oracle.processed_journals
    checkpoints,        \* values of processed_journals a checkpoint was saved at
    dispatched,         \* per URL: times handed to hybrid_scrape_articles
    returned,           \* per URL: records hybrid_scrape_articles returned
    passed,             \* per URL: records handed to batch_manager.save_batch
    durable,            \* URLs whose record a successful save_batch wrote
    rejected,           \* URLs the duplicate filter has turned down
    save_calls,         \* calls of batch_manager.save_batch
    last_save           \* the latest call: <<len(batch), "ok" | "failed">>

runVars == <<run_pc, journals_found, prior_done, j_idx, seen_article_urls,
             new_article_urls, all_articles_data, processed_journals,
             checkpoints, dispatched, returned, passed, durable, rejected,
             save_calls, last_save>>

VARIABLES
    \* --- the batch manager, as the journal loop uses it ---
    bk_pc,                \* "off" | "flushing": the threshold flushes on their own
    total_articles_saved, \* batch_manager.total_articles_saved
    flushes,              \* threshold flushes so far (lines 388-390)
    backups               \* the flush numbers create_backup was called after

bkVars == <<bk_pc, total_articles_saved, flushes, backups>>

VARIABLES
    \* --- scrape_all_articles_SIMPLE, after the partitioning ---
    sp_pc,            \* "off" | "init" | "pool" | "results" | "done" | "error"
                      \* | "reported" (main has printed its verdict)
    page_state,       \* per page: "todo" | "ok" | "empty" | "failed"
    page_attempts,    \* per page: session.get calls issued
    chunk_results,    \* what pool.map returned: per chunk <<articles, pages_done>>
    next_result,      \* chunk results handled by the result loop so far
    pages_reported,   \* sum of pages_done given to tracker.update_progress
    sp_passed,        \* per page: times its articles were handed to save_batch
    sp_saves,         \* calls of file_manager.save_batch
    sleeping,         \* chunks whose worker process is in time.sleep(delay)
    last_event,       \* the latest of all workers' events at the host:
                      \* "none" | "request" | "delay"
    unspaced,         \* a request started right after another request
    sp_return,        \* the list scrape_all_articles_SIMPLE returned
    main_report       \* what main printed: "none" | "success" | "failed"

paceVars == <<sleeping, last_event, unspaced>>

retVars == <<sp_return, main_report>>

simpleVars == <<sp_pc, page_state, page_attempts, chunk_results, next_result,
                pages_reported, sp_passed, sp_saves, paceVars, retVars>>

VARIABLES
    \* --- scrape_all_universities ---
    csv_pc,           \* "off" | "scrape" | "context" | "save" | "done"
                      \* | "raising" | "aborted"
    n_large,          \* len(large_unis)
    n_small,          \* len(small_unis)
    uni_idx,          \* universities handled so far, large ones first
    all_theses,       \* all_theses
    file_rows,        \* the data rows of the output CSV on disk
    ever_saved,       \* rows that a completed _save_csv had left in the file
    csv_saves,        \* <<completed, failed>> calls of _save_csv
    browser_contexts, \* the open contexts of the browser
    closed_by_browser \* contexts that browser.close() closed

ctxVars == <<browser_contexts, closed_by_browser>>

csvVars == <<csv_pc, n_large, n_small, uni_idx, all_theses, file_rows,
             ever_saved, csv_saves, ctxVars>>

VARIABLES
    \* --- _scrape_university_by_year, for one university ---
    yr_pc,            \* "off" | "open" | "gather" | "close" | "pdf" | "extract"
                      \* | "done" | "raised" | "closed"
    n_years,          \* len(years)
    year_batch,       \* year_batch
    batch_start,      \* batch_start, 0-based
    contexts,         \* contexts of the current sub-batch, named by their year
    close_idx,        \* contexts the "finally" loop has closed so far
    open_contexts,    \* browser contexts that are open, named by their year
    year_result,      \* per year: "pending" | "record" | "[]" | "Exception"
    yr_theses,        \* all_theses: the years whose theses were added
    sub_batches,      \* the batch_years lists whose tasks were built, in order
    year_tasks,       \* per year: _scrape_single_year tasks built for it
    extract_pdfs,     \* extract_pdfs
    pdf_context       \* the context of the PDF extraction:
                      \* "none" | "open" | "closed"

shardVars == <<sub_batches, year_tasks>>

pdfVars == <<extract_pdfs, pdf_context>>

yearVars == <<yr_pc, n_years, year_batch, batch_start, contexts, close_idx,
              open_contexts, year_result, yr_theses, shardVars, pdfVars>>

VARIABLES
    \* --- get_journal_slugs_and_titles_by_scraping ---
    disc_pc,          \* "off" | "loop" | "done"
    page_num,         \* page_num
    page_requests,    \* per journal-list page: requests.get calls issued
    page_links,       \* per journal-list page: <<"unread" | "failed" | "read",
                      \* the slugs its links gave>>
    journal_data,     \* journal_data, as the slugs in order
    seen_slugs        \* seen_slugs

discVars == <<disc_pc, page_num, page_requests, page_links, journal_data,
              seen_slugs>>

VARIABLES
    \* --- the search web applications (website/Main.py, flask_manus.py) ---
    web_pc,           \* "off" | "serving"
    eng_cache,        \* per source: _<source>_cache of the engine of Main.py:
                      \* "None" | "table" | "empty" (an empty DataFrame)
    eng_loads,        \* per source: calls of load_<source>_cache
    accessed,         \* sources whose cache property was read at least once
    requests,         \* requests handled so far
    last_request,     \* <<handler, len(keyword)>> of the latest request
    last_response,    \* <<HTTP status, "error" | "results">> of its response
    last_invoked,     \* its handler called a method of the search engine
    last_loads        \* sources whose cache was loaded while it was handled

webVars == <<web_pc, eng_cache, eng_loads, accessed, requests, last_request,
             last_response, last_invoked, last_loads>>

VARIABLES
    \* --- detect_and_prioritize_turkish / _fallback_turkish_detection ---
    tl_pc,            \* "off" | "call" | "returned"
    tl_fn,            \* "detect" | "fallback": the function that was called
    english_text,     \* english_text, a sequence of characters, or NoneText
    turkish_text,     \* turkish_text, likewise
    langdetect_installed, \* "from langdetect import ..." succeeds
    detected_lang,    \* <<turkish_detected_lang, english_detected_lang>>
    title_result      \* the returned title

titleVars == <<tl_pc, tl_fn, english_text, turkish_text, langdetect_installed,
               detected_lang, title_result>>

VARIABLES
    \* --- hybrid_scrape_articles: the pool of worker processes ---
    hp_pc,            \* "off" | "call" | "pool" | "done"
    all_article_urls, \* the list the caller passes
    hp_processes,     \* self.num_processes
    chunk_args,       \* the chunks handed to pool.map
    fetch_result,     \* per URL: "todo" | "record" | "None"
    chunk_state,      \* per chunk: "running" | "returned" | "raised"
    chunk_returns,    \* per chunk: what process_article_chunk_standalone returned
    all_results       \* the list hybrid_scrape_articles returns

poolVars == <<hp_pc, all_article_urls, hp_processes, chunk_args, fetch_result,
              chunk_state, chunk_returns, all_results>>

VARIABLES
    \* --- _extract_pdf_urls_concurrent ---
    ex_pc,            \* "off" | "batch" | "gather" | "returned" | "raised"
    ex_theses,        \* theses, per thesis: "missing" | "url" (its detail_url)
    batch_size,       \* batch_size
    ex_i,             \* i, the offset of the current batch
    ex_task,          \* per thesis, its extract_single: "idle" | "created"
                      \* | "open" | "extracted" | "done" | "raised"
    page_outcome,     \* per thesis: "none" | "link" | "nolink" | "fails"
    pdf_url,          \* per thesis: "unset" | "" | "link" (thesis['pdf_url'])
    ex_results        \* results: the theses returned, by their position

extractVars == <<ex_pc, ex_theses, batch_size, ex_i, ex_task, page_outcome,
                 pdf_url, ex_results>>

\* What the actions of one group leave alone: the other groups.
PartFrame ==
    UNCHANGED <<workVars, runVars, csvVars, yearVars, discVars, bkVars,
              webVars, titleVars,
              poolVars,
              extractVars>>
WorkFrame == UNCHANGED <<partVars, runVars, simpleVars, csvVars, yearVars,
                         discVars, bkVars,
              webVars, titleVars,
              poolVars,
              extractVars>>
RunFrame == UNCHANGED <<partVars, workVars, simpleVars, csvVars, yearVars,
                        discVars, bkVars,
              webVars, titleVars,
              poolVars,
              extractVars>>
SaveFrame == UNCHANGED <<partVars, workVars, simpleVars, csvVars, yearVars,
                         discVars, webVars, titleVars,
              poolVars,
              extractVars>>
BkFrame == UNCHANGED <<partVars, workVars, runVars, simpleVars, csvVars,
                       yearVars, discVars, webVars, titleVars,
              poolVars,
              extractVars>>
WebFrame == UNCHANGED <<partVars, workVars, runVars, simpleVars, csvVars,
                        yearVars, discVars, bkVars, titleVars,
              poolVars,
              extractVars>>
TitleFrame == UNCHANGED <<partVars, workVars, runVars, simpleVars, csvVars,
                          yearVars, discVars, bkVars, webVars,
              poolVars,
              extractVars>>
SimpleFrame ==
    UNCHANGED <<workVars, runVars, csvVars, yearVars, discVars, bkVars,
              webVars, titleVars,
              poolVars,
              extractVars>>
CsvFrame == UNCHANGED <<partVars, workVars, runVars, simpleVars, yearVars,
                        discVars, bkVars,
              webVars, titleVars,
              poolVars,
              extractVars>>
YearFrame == UNCHANGED <<partVars, workVars, runVars, simpleVars, csvVars,
                         discVars, bkVars,
              webVars, titleVars,
              poolVars,
              extractVars>>
DiscFrame == UNCHANGED <<partVars, workVars, runVars, simpleVars, csvVars,
                         yearVars, bkVars,
              webVars, titleVars,
              poolVars,
              extractVars>>

\* --------------------------------------------------------- partitioning
\* lst[i:i + chunk_size] for a 0-based offset i (Python slice: clipped at the end)
SliceDropsLast(lst, i, chunk_size) ==
    SubSeq(lst, i + 1, Min(i + chunk_size, Len(lst)) - 1)

Slice(lst, i, chunk_size) ==
    SubSeq(lst, i + 1, Min(i + chunk_size, Len(lst)))

\* range(0, n, step) for step >= 1, as the ascending sequence of its offsets
RangeStep(n, step) == [k \in 1..Ceil(n, step) |-> (k - 1) * step]

\* chunk_size = math.ceil(len(lst) / num_processes)
ChunkSizeOneMore(lst, n) == (Len(lst) \div n) + 1

ChunkSize(lst, n) == Ceil(Len(lst), n)

\* [lst[i:i + chunk_size] for i in range(0, len(lst), chunk_size)], then the
\* "if chunk" filter that keeps the non-empty chunks. chunk_size >= 1.
Chunks(lst, chunk_size) ==
    LET offs == RangeStep(Len(lst), chunk_size)
        raw  == [k \in 1..Len(offs) |-> Slice(lst, offs[k], chunk_size)]
    IN  SelectSeq(raw, LAMBDA c : c # <<>>)

\* The estimated unit count of a chunk: the sum over its items.
RECURSIVE ChunkWeight(_)
ChunkWeight(chunk) ==
    IF chunk = <<>> THEN 0
    ELSE unit_count[CHOOSE i \in 1..Len(work_list) : work_list[i] = Head(chunk)]
             + ChunkWeight(Tail(chunk))

\* hybrid_scrape_articles, up to the chunk arguments: an empty list returns
\* at once; otherwise the URLs are split into chunks of chunk_size.
HybridPartition ==
    /\ part_pc = "call"
    /\ part_fn = "hybrid"
    /\ IF work_list = <<>>
       THEN /\ part_pc' = "empty"
            /\ url_chunks' = <<>>
       ELSE /\ part_pc' = "done"
            /\ url_chunks' = Chunks(work_list, ChunkSize(work_list, num_processes))
    /\ UNCHANGED <<part_fn, work_list, num_processes, unit_count,
                   imbalance_tolerance>>
    /\ UNCHANGED simpleVars
    /\ PartFrame

\* scrape_all_articles_SIMPLE, up to process_args: there is no guard for an
\* empty page list, chunk_size is then 0 and range(0, 0, 0) raises ValueError.
SimplePartition ==
    /\ part_pc = "call"
    /\ part_fn = "simple"
    /\ IF ChunkSize(work_list, num_processes) = 0
       THEN /\ part_pc' = "error"
            /\ url_chunks' = <<>>
       ELSE /\ part_pc' = "done"
            /\ url_chunks' = Chunks(work_list, ChunkSize(work_list, num_processes))
    /\ sp_pc' = IF sp_pc # "init" THEN sp_pc
                ELSE IF ChunkSize(work_list, num_processes) = 0 THEN "error"
                ELSE "pool"
    /\ UNCHANGED <<part_fn, work_list, num_processes, unit_count,
                   imbalance_tolerance>>
    /\ UNCHANGED <<page_state, page_attempts, chunk_results, next_result,
                   pages_reported, sp_passed, sp_saves, paceVars, retVars>>
    /\ PartFrame

\* The work lists the callers build: URLs that passed the duplicate filter
\* (no URL twice), and page_numbers = list(range(1, max_pages + 1)).
PartInit ==
    /\ part_pc = "call"
    /\ part_fn \in {"hybrid", "simple"}
    /\ num_processes \in 1..MaxProcs
    /\ work_list \in IF part_fn = "hybrid"
                     THEN InjSeqs(1..MaxLen, MaxLen)
                     ELSE {[i \in 1..max_pages |-> i] : max_pages \in 0..MaxLen}
    /\ unit_count \in [1..Len(work_list) -> {1, HeavyUnits}]
    /\ imbalance_tolerance \in 1..MaxTolerance
    /\ url_chunks = <<>>

PartIdle ==
    /\ part_pc = "off"
    /\ part_fn = "hybrid"
    /\ work_list = <<>>
    /\ num_processes = 1
    /\ unit_count = <<>>
    /\ imbalance_tolerance = 1
    /\ url_chunks = <<>>

PartNext == HybridPartition \/ SimplePartition

\* ------------------------------------------------------- worker process
Tasks == DOMAIN task_pc

InFlight == {u \in Tasks : task_pc[u] = "fetching"}

\* How one fetch can end: a 200 response with an extractable record, a 200
\* response the extractor returns nothing for, a non-200 status, an exception
\* (timeout, connection reset, ...).
Outcomes == {"ok", "empty", "status", "exception"}

\* What the coroutine returns for an outcome.
\* scrape_single_article_standalone: the record, else None.
\* scrape_single_issue_async: the article list on 200 (an empty page gives []),
\* None by falling off the end on another status, [] on an exception.
ReturnValue(kind, outcome) ==
    IF kind = "article"
    THEN IF outcome = "ok" THEN "record" ELSE "None"
    ELSE CASE outcome = "ok" -> "record"
           [] outcome = "empty" -> "[]"
           [] outcome = "status" -> "None"
           [] OTHER -> "[]"

\* "async with semaphore": Semaphore.acquire lets a task in while _value > 0
SemaphoreFreeUngated == TRUE

SemaphoreFree == sem_value > 0

\* A task enters "async with semaphore" and issues its one session.get.
Acquire(u) ==
    /\ wk_pc = "run"
    /\ task_pc[u] = "created"
    /\ SemaphoreFree
    /\ sem_value' = sem_value - 1
    /\ task_pc' = [task_pc EXCEPT ![u] = "fetching"]
    /\ attempts' = [attempts EXCEPT ![u] = @ + 1]
    /\ UNCHANGED <<wk_pc, wk_kind, max_concurrent, retry_count, task_result,
                   task_outcome, completion_order, successful_results>>
    /\ WorkFrame

\* The fetch of task u ends with outcome o; the coroutine returns and leaves
\* "async with semaphore" (release). No path loops back to session.get.
Complete(u, o) ==
    /\ wk_pc = "run"
    /\ task_pc[u] = "fetching"
    /\ task_pc' = [task_pc EXCEPT ![u] = "done"]
    /\ task_outcome' = [task_outcome EXCEPT ![u] = o]
    /\ task_result' = [task_result EXCEPT ![u] = ReturnValue(wk_kind, o)]
    /\ sem_value' = sem_value + 1
    /\ completion_order' = Append(completion_order, u)
    /\ UNCHANGED <<wk_pc, wk_kind, max_concurrent, retry_count, attempts,
                   successful_results>>
    /\ WorkFrame

\* [r for r in results if r is not None and not isinstance(r, Exception)] for
\* articles; the issue variant keeps the results that are lists.
\* gather returns the results in task order.
Successful(kind, results) ==
    SelectSeq([u \in 1..Len(results) |-> u],
              LAMBDA u : IF kind = "article"
                         THEN results[u] # "None"
                         ELSE results[u] \in {"record", "[]"})

\* asyncio.gather returns once every task is done.
Gather ==
    /\ wk_pc = "run"
    /\ \A u \in Tasks : task_pc[u] = "done"
    /\ wk_pc' = "gathered"
    /\ successful_results' = Successful(wk_kind, task_result)
    /\ UNCHANGED <<wk_kind, max_concurrent, retry_count, sem_value, task_pc,
                   task_result, task_outcome, attempts, completion_order>>
    /\ WorkFrame

\* A chunk of 1..MaxTasks URLs (a dispatched chunk is never empty), a semaphore
\* of max_concurrent permits. The source builds Semaphore(max_concurrent) for
\* articles and Semaphore(20) for issues; the model draws the limit for both.
WorkInit ==
    /\ wk_pc = "run"
    /\ wk_kind \in {"article", "issue"}
    /\ max_concurrent \in 1..MaxConcurrent
    /\ retry_count \in 0..MaxRetry
    /\ sem_value = max_concurrent
    /\ \E n \in 1..MaxTasks :
          /\ task_pc = [u \in 1..n |-> "created"]
          /\ task_result = [u \in 1..n |-> "pending"]
          /\ task_outcome = [u \in 1..n |-> "pending"]
          /\ attempts = [u \in 1..n |-> 0]
    /\ completion_order = <<>>
    /\ successful_results = <<>>

WorkIdle ==
    /\ wk_pc = "off"
    /\ wk_kind = "article"
    /\ max_concurrent = 1
    /\ retry_count = 0
    /\ sem_value = 1
    /\ task_pc = <<>>
    /\ task_result = <<>>
    /\ task_outcome = <<>>
    /\ attempts = <<>>
    /\ completion_order = <<>>
    /\ successful_results = <<>>

WorkNext ==
    \/ \E u \in Tasks : Acquire(u)
    \/ \E u \in Tasks, o \in Outcomes : Complete(u, o)
    \/ Gather

\* ------------------------------------------------------- the journal loop
Urls == 1..MaxUrls

\* What collect_all_article_urls_for_journal can return: the same article may
\* be listed by two issues, or by an earlier journal.
Overviews == UNION {[1..k -> Urls] : k \in 0..MaxOverview}

\* bag[u] + 1 for every occurrence of u in urls
RECURSIVE Count(_, _)
Count(bag, urls) ==
    IF urls = <<>> THEN bag
    ELSE Count([bag EXCEPT ![Head(urls)] = @ + 1], Tail(urls))

\* The duplicate filter of the journal loop:
\*   for article_data in articles_overview:
\*       if article_data['url'] not in seen_article_urls:
\*           seen_article_urls.add(url); new_article_urls.append(url)
RECURSIVE FilterLoop(_, _, _)
FilterLoop(overview, seen, new) ==
    IF overview = <<>> THEN [new |-> new, seen |-> seen]
    ELSE IF Head(overview) \notin seen
         THEN FilterLoop(Tail(overview), seen \cup {Head(overview)},
                         Append(new, Head(overview)))
         ELSE FilterLoop(Tail(overview), seen, new)

\* The same loop without seen_article_urls.add
RECURSIVE FilterLoopNoAdd(_, _, _)
FilterLoopNoAdd(overview, seen, new) ==
    IF overview = <<>> THEN [new |-> new, seen |-> seen]
    ELSE IF Head(overview) \notin seen
         THEN FilterLoopNoAdd(Tail(overview), seen, Append(new, Head(overview)))
         ELSE FilterLoopNoAdd(Tail(overview), seen, new)

DedupFilterNoAdd(overview, seen) == FilterLoopNoAdd(overview, seen, <<>>)

DedupFilter(overview, seen) == FilterLoop(overview, seen, <<>>)

\* The URLs of an overview that were discovered before: in an earlier journal,
\* or earlier in the same overview.
Duplicates(overview, seen) ==
    {overview[i] : i \in {k \in 1..Len(overview) :
        \/ overview[k] \in seen
        \/ \E m \in 1..(k - 1) : overview[m] = overview[k]}}

\* process_article_chunk_standalone: the records of the URLs of the chunk whose
\* fetch succeeded, in the chunk's order (gather keeps the task order).
ProcessChunk(chunk, ok) == SelectSeq(chunk, LAMBDA u : u \in ok)

\* hybrid_scrape_articles: partition, pool.map over the chunks (results in chunk
\* order), flatten. A record is named by the URL it was scraped from.
hybrid_scrape_articles(urls, n, ok) ==
    IF urls = <<>> THEN <<>>
    ELSE LET chunks == Chunks(urls, ChunkSize(urls, n))
         IN  Flatten([k \in 1..Len(chunks) |-> ProcessChunk(chunks[k], ok)])

\* for j_data in journal_slugs_and_titles: oracle.start_journal, collect the
\* overview, filter the duplicates out. Nothing reads the earlier checkpoint.
\* A journal without a new URL skips the rest of the loop body.
StartJournal(overview) ==
    /\ run_pc = "loop"
    /\ j_idx < journals_found
    /\ j_idx' = j_idx + 1
    /\ LET f == DedupFilter(overview, seen_article_urls)
       IN  /\ new_article_urls' = f.new
           /\ seen_article_urls' = f.seen
           /\ run_pc' = IF f.new = <<>> THEN "loop" ELSE "scrape"
    /\ rejected' = rejected \cup Duplicates(overview, seen_article_urls)
    /\ UNCHANGED <<journals_found, prior_done, all_articles_data,
                   processed_journals, checkpoints, dispatched, returned,
                   passed, durable, save_calls, last_save>>
    /\ RunFrame

\* oracle.finish_journal(j_title, n): one more journal is processed.
finish_journal == processed_journals + 1

\* journal_articles = hybrid_scrape_articles(new_article_urls, slug);
\* all_articles_data.extend(journal_articles); oracle.finish_journal(...)
ScrapeJournal(ok) ==
    /\ run_pc = "scrape"
    /\ LET journal_articles ==
               hybrid_scrape_articles(new_article_urls, RunProcesses, ok)
       IN  /\ all_articles_data' = all_articles_data \o journal_articles
           /\ returned' = Count(returned, journal_articles)
    /\ dispatched' = Count(dispatched, new_article_urls)
    /\ processed_journals' = finish_journal
    /\ run_pc' = "checkpoint"
    /\ UNCHANGED <<journals_found, prior_done, j_idx, seen_article_urls,
                   new_article_urls, checkpoints, passed, durable, rejected,
                   save_calls, last_save>>
    /\ RunFrame

\* if oracle.processed_journals % 10 == 0
CheckpointDueOffByOne == processed_journals % CheckpointEvery = 1

CheckpointDue == processed_journals % CheckpointEvery = 0

CheckpointSave ==
    /\ run_pc = "checkpoint"
    /\ CheckpointDue
    /\ checkpoints' = checkpoints \cup {processed_journals}
    /\ run_pc' = "flush"
    /\ UNCHANGED <<journals_found, prior_done, j_idx, seen_article_urls,
                   new_article_urls, all_articles_data, processed_journals,
                   dispatched, returned, passed, durable, rejected, save_calls,
                   last_save>>
    /\ RunFrame

CheckpointSkip ==
    /\ run_pc = "checkpoint"
    /\ ~CheckpointDue
    /\ run_pc' = "flush"
    /\ UNCHANGED <<journals_found, prior_done, j_idx, seen_article_urls,
                   new_article_urls, all_articles_data, processed_journals,
                   checkpoints, dispatched, returned, passed, durable,
                   rejected, save_calls, last_save>>
    /\ RunFrame

\* if len(all_articles_data) >= BATCH_SAVE_SIZE
FlushDueStrict == Len(all_articles_data) > BATCH_SAVE_SIZE

FlushDue == Len(all_articles_data) >= BATCH_SAVE_SIZE

\* What UnifiedParquetBatchManager.save_batch leaves durable: the records of a
\* batch whose write succeeded. A write that fails adds nothing and returns.
DurableAfter(batch, outcome) ==
    IF outcome = "ok" THEN durable \cup Range(batch) ELSE durable

\* The running total of UnifiedParquetBatchManager after save_batch: the
\* records of every batch written so far.
TotalAfter(total, batch_len, outcome) ==
    IF outcome = "ok" THEN total + batch_len ELSE total

\* batch_manager.save_batch(batch): the call, as the loop sees it.
save_batch(batch, outcome) ==
    /\ passed' = Count(passed, batch)
    /\ save_calls' = save_calls + 1
    /\ last_save' = <<Len(batch), outcome>>
    /\ durable' = DurableAfter(batch, outcome)
    /\ total_articles_saved' =
           TotalAfter(total_articles_saved, Len(batch), outcome)

\* if batch_manager.total_articles_saved % (BATCH_SAVE_SIZE * 10) == 0
BackupDue(total) == total % (BATCH_SAVE_SIZE * BackupEvery) = 0

\* Lines 393-394, after the threshold flush: create_backup when the running
\* total is a multiple of BATCH_SAVE_SIZE * 10.
BackupStep(total) ==
    /\ flushes' = flushes + 1
    /\ backups' = IF BackupDue(total) THEN backups \cup {flushes + 1}
                  ELSE backups

\* all_articles_data after the threshold flush: "all_articles_data = []  # Clear
\* memory", whatever save_batch did.
AfterFlush(batch) == <<>>

FlushSave(outcome) ==
    /\ run_pc = "flush"
    /\ FlushDue
    /\ save_batch(all_articles_data, outcome)
    /\ all_articles_data' = AfterFlush(all_articles_data)
    /\ BackupStep(total_articles_saved')
    /\ run_pc' = "loop"
    /\ UNCHANGED <<journals_found, prior_done, j_idx, seen_article_urls,
                   new_article_urls, processed_journals, checkpoints,
                   dispatched, returned, rejected, bk_pc>>
    /\ SaveFrame

FlushSkip ==
    /\ run_pc = "flush"
    /\ ~FlushDue
    /\ run_pc' = "loop"
    /\ UNCHANGED <<journals_found, prior_done, j_idx, seen_article_urls,
                   new_article_urls, all_articles_data, processed_journals,
                   checkpoints, dispatched, returned, passed, durable,
                   rejected, save_calls, last_save>>
    /\ RunFrame

\* After the loop: if all_articles_data: batch_manager.save_batch(all_articles_data)
FinalSaveDueNever == FALSE

FinalSaveDue == all_articles_data # <<>>

\* The list is not cleared after the final save; the function returns.
FinalSave(outcome) ==
    /\ run_pc = "loop"
    /\ j_idx = journals_found
    /\ FinalSaveDue
    /\ save_batch(all_articles_data, outcome)
    /\ run_pc' = "done"
    /\ UNCHANGED <<journals_found, prior_done, j_idx, seen_article_urls,
                   new_article_urls, all_articles_data, processed_journals,
                   checkpoints, dispatched, returned, rejected, bk_pc,
                   flushes, backups>>
    /\ SaveFrame

FinalSkip ==
    /\ run_pc = "loop"
    /\ j_idx = journals_found
    /\ ~FinalSaveDue
    /\ run_pc' = "done"
    /\ UNCHANGED <<journals_found, prior_done, j_idx, seen_article_urls,
                   new_article_urls, all_articles_data, processed_journals,
                   checkpoints, dispatched, returned, passed, durable,
                   rejected, save_calls, last_save>>
    /\ RunFrame

\* The state before the loop. An earlier, interrupted run may have left a
\* checkpoint that marks the first prior_done journals as done (none, or as
\* many as MaxPrior allows).
RunInit ==
    /\ run_pc = "loop"
    /\ journals_found \in 0..MaxJournals
    /\ prior_done \in {0, Min(MaxPrior, journals_found)}
    /\ j_idx = 0
    /\ seen_article_urls = {}
    /\ new_article_urls = <<>>
    /\ all_articles_data = <<>>
    /\ processed_journals = 0
    /\ checkpoints = {}
    /\ dispatched = [u \in Urls |-> 0]
    /\ returned = [u \in Urls |-> 0]
    /\ passed = [u \in Urls |-> 0]
    /\ durable = {}
    /\ rejected = {}
    /\ save_calls = 0
    /\ last_save = <<0, "none">>

RunIdle ==
    /\ run_pc = "off"
    /\ journals_found = 0
    /\ prior_done = 0
    /\ j_idx = 0
    /\ seen_article_urls = {}
    /\ new_article_urls = <<>>
    /\ all_articles_data = <<>>
    /\ processed_journals = 0
    /\ checkpoints = {}
    /\ dispatched = <<>>
    /\ returned = <<>>
    /\ passed = <<>>
    /\ durable = {}
    /\ rejected = {}
    /\ save_calls = 0
    /\ last_save = <<0, "none">>

SaveOutcomes == {"ok", "failed"}

RunNext ==
    \/ \E overview \in Overviews : StartJournal(overview)
    \/ \E ok \in SUBSET Range(new_article_urls) : ScrapeJournal(ok)
    \/ CheckpointSave
    \/ CheckpointSkip
    \/ \E outcome \in SaveOutcomes : FlushSave(outcome)
    \/ FlushSkip
    \/ \E outcome \in SaveOutcomes : FinalSave(outcome)
    \/ FinalSkip

\* ----------------------------------- the threshold flushes of a long run
\* The journal loop reaches "if len(all_articles_data) >= BATCH_SAVE_SIZE" with
\* a batch of BATCH_SAVE_SIZE records or more (a journal adds any number of
\* records to the batch at once), calls save_batch and makes the backup test.
\* The sequence of these flushes, batch length by batch length.
ThresholdFlush(batch_len, outcome) ==
    /\ bk_pc = "flushing"
    /\ flushes < MaxFlushes
    /\ batch_len >= BATCH_SAVE_SIZE
    /\ total_articles_saved' =
           TotalAfter(total_articles_saved, batch_len, outcome)
    /\ BackupStep(total_articles_saved')
    /\ UNCHANGED bk_pc
    /\ BkFrame

\* UnifiedParquetBatchManager(): nothing saved yet.
BkStart ==
    /\ total_articles_saved = 0
    /\ flushes = 0
    /\ backups = {}

BkInit == bk_pc = "flushing" /\ BkStart

BkIdle == bk_pc = "off" /\ BkStart

BkNext ==
    \E batch_len \in BATCH_SAVE_SIZE..(BATCH_SAVE_SIZE + MaxExtra),
       outcome \in SaveOutcomes : ThresholdFlush(batch_len, outcome)

\* ------------------------------------- scrape_all_articles_SIMPLE, the pool
Pages == DOMAIN page_state

\* How get_articles_page_standalone can end for a page: a response with
\* articles, a response without any, None after an exception.
PageOutcomes == {"ok", "empty", "failed"}

\* The chunk a page belongs to, and the pages before it in that chunk.
ChunkOf(p) == CHOOSE k \in 1..Len(url_chunks) : p \in Range(url_chunks[k])

EarlierInChunk(p) ==
    LET c == url_chunks[ChunkOf(p)]
    IN  {c[i] : i \in {m \in 1..Len(c) : \E n \in (m + 1)..Len(c) : c[n] = p}}

\* process_page_chunk_simple, one iteration of "for page_num in page_numbers":
\* one call of get_articles_page_standalone, which issues one session.get and
\* returns the JSON or, after any exception, None. The worker processes run in
\* parallel; each takes the pages of its chunk in order, and sleeps after
\* each page ("if delay > 0: time.sleep(delay)", with the delay the caller
\* configured, 0.5 by default) whatever the page gave.
FetchPage(p, outcome) ==
    /\ sp_pc = "pool"
    /\ page_state[p] = "todo"
    /\ \A q \in EarlierInChunk(p) : page_state[q] # "todo"
    /\ ChunkOf(p) \notin sleeping
    /\ page_state' = [page_state EXCEPT ![p] = outcome]
    /\ page_attempts' = [page_attempts EXCEPT ![p] = @ + 1]
    /\ sleeping' = sleeping \cup {ChunkOf(p)}
    /\ last_event' = "request"
    /\ unspaced' = (unspaced \/ last_event = "request")
    /\ UNCHANGED <<sp_pc, chunk_results, next_result, pages_reported,
                   sp_passed, sp_saves>>
    /\ UNCHANGED retVars
    /\ UNCHANGED partVars
    /\ SimpleFrame

\* time.sleep(delay) of the worker of chunk k returns. The sleep is a call of
\* that process alone: no other worker waits for it.
DelayStep(k) ==
    /\ sp_pc = "pool"
    /\ k \in sleeping
    /\ sleeping' = sleeping \ {k}
    /\ last_event' = "delay"
    /\ UNCHANGED <<sp_pc, page_state, page_attempts, chunk_results,
                   next_result, pages_reported, sp_passed, sp_saves, unspaced>>
    /\ UNCHANGED retVars
    /\ UNCHANGED partVars
    /\ SimpleFrame

\* return (all_articles, len(page_numbers), batch_time): the articles of the
\* pages that gave some, named by their page, and the length of the chunk.
ChunkResult(chunk, state) ==
    <<SelectSeq(chunk, LAMBDA p : state[p] = "ok"), Len(chunk)>>

\* How many records of page p the worker chunks returned.
ReturnedByChunks(p) ==
    Cardinality({ki \in UNION {{<<k, i>> : i \in 1..Len(chunk_results[k][1])} :
                                k \in 1..Len(chunk_results)} :
                    chunk_results[ki[1]][1][ki[2]] = p})

\* pool.map blocks until every worker has returned the result of its chunk.
PoolMapReturnsEarly == TRUE

PoolMapReturns ==
    /\ \A p \in Pages : page_state[p] # "todo"
    /\ sleeping = {}

\* chunk_results = pool.map(process_page_chunk_simple, process_args): the
\* results of the chunks, in chunk order.
PoolJoin ==
    /\ sp_pc = "pool"
    /\ PoolMapReturns
    /\ chunk_results' =
           [k \in 1..Len(url_chunks) |-> ChunkResult(url_chunks[k], page_state)]
    /\ sp_pc' = "results"
    /\ UNCHANGED <<page_state, page_attempts, next_result, pages_reported,
                   sp_passed, sp_saves, paceVars>>
    /\ UNCHANGED retVars
    /\ UNCHANGED partVars
    /\ SimpleFrame

\* if chunk_articles: file_manager.save_batch(...)
SaveChunkDue(chunk_articles) == chunk_articles # <<>>

\* for chunk_articles, pages_done, batch_time in chunk_results:
\*     tracker.update_progress(pages_done, batch_time)
\*     if chunk_articles: file_manager.save_batch(...)
HandleResult ==
    /\ sp_pc = "results"
    /\ next_result < Len(chunk_results)
    /\ LET r == chunk_results[next_result + 1]
       IN  /\ pages_reported' = pages_reported + r[2]
           /\ IF SaveChunkDue(r[1])
              THEN /\ sp_passed' = Count(sp_passed, r[1])
                   /\ sp_saves' = sp_saves + 1
              ELSE UNCHANGED <<sp_passed, sp_saves>>
    /\ next_result' = next_result + 1
    /\ UNCHANGED <<sp_pc, page_state, page_attempts, chunk_results, paceVars>>
    /\ UNCHANGED retVars
    /\ UNCHANGED partVars
    /\ SimpleFrame

\* The result loop is over; the function logs the statistics and returns [].
ReturnedList(results) == <<>>

SimpleReturn ==
    /\ sp_pc = "results"
    /\ next_result = Len(chunk_results)
    /\ sp_return' = ReturnedList(chunk_results)
    /\ sp_pc' = "done"
    /\ UNCHANGED <<page_state, page_attempts, chunk_results, next_result,
                   pages_reported, sp_passed, sp_saves, paceVars, main_report>>
    /\ UNCHANGED partVars
    /\ SimpleFrame

\* main: articles = scraper.scrape_all_articles_SIMPLE(...); "if articles:"
\* prints the success lines and saves again, else prints "Multiprocessing
\* annihilation failed. Check API availability."
MainReports ==
    /\ sp_pc = "done"
    /\ main_report' = IF sp_return # <<>> THEN "success" ELSE "failed"
    /\ sp_pc' = "reported"
    /\ UNCHANGED <<page_state, page_attempts, chunk_results, next_result,
                   pages_reported, sp_passed, sp_saves, paceVars, sp_return>>
    /\ UNCHANGED partVars
    /\ SimpleFrame

\* scrape_all_articles_SIMPLE(max_pages): page_numbers = 1..max_pages
SimpleInit ==
    /\ part_pc = "call"
    /\ part_fn = "simple"
    /\ num_processes \in 1..MaxProcs
    /\ work_list \in {[i \in 1..max_pages |-> i] : max_pages \in 0..MaxLen}
    /\ unit_count = [i \in 1..Len(work_list) |-> 1]
    /\ imbalance_tolerance = 1
    /\ url_chunks = <<>>
    /\ sp_pc = "init"
    /\ page_state = [p \in 1..Len(work_list) |-> "todo"]
    /\ page_attempts = [p \in 1..Len(work_list) |-> 0]
    /\ chunk_results = <<>>
    /\ next_result = 0
    /\ pages_reported = 0
    /\ sp_passed = [p \in 1..Len(work_list) |-> 0]
    /\ sp_saves = 0
    /\ sleeping = {}
    /\ last_event = "none"
    /\ unspaced = FALSE
    /\ sp_return = <<>>
    /\ main_report = "none"

SimpleIdle ==
    /\ sp_pc = "off"
    /\ page_state = <<>>
    /\ page_attempts = <<>>
    /\ chunk_results = <<>>
    /\ next_result = 0
    /\ pages_reported = 0
    /\ sp_passed = <<>>
    /\ sp_saves = 0
    /\ sleeping = {}
    /\ last_event = "none"
    /\ unspaced = FALSE
    /\ sp_return = <<>>
    /\ main_report = "none"

SimpleNext ==
    \/ SimplePartition
    \/ \E p \in Pages, outcome \in PageOutcomes : FetchPage(p, outcome)
    \/ \E k \in 1..Len(url_chunks) : DelayStep(k)
    \/ PoolJoin
    \/ HandleResult
    \/ SimpleReturn
    \/ MainReports

\* ------------------------------------------------ scrape_all_universities
\* The theses a university yields, named by university and position.
ThesesOf(uni, count) == [k \in 1..count |-> <<uni, k>>]

\* What browser.close() leaves of the open contexts: closing the browser
\* closes every context that belongs to it.
OpenAfterBrowserCloseKeeps(open) == open

OpenAfterBrowserClose(open) == {}

\* The large universities come first, then the small ones.
NextIsLarge == uni_idx < n_large

NextIsSmall == n_large <= uni_idx /\ uni_idx < n_large + n_small

\* The per-university context of the small phase, named apart from the year
\* contexts 1, 2, ... a call of _scrape_university_by_year opens.
SmallContext == -1

\* context = await browser.new_context(...) for the next small university
NewSmallContext ==
    /\ csv_pc = "scrape"
    /\ NextIsSmall
    /\ browser_contexts' = browser_contexts \cup {SmallContext}
    /\ csv_pc' = "context"
    /\ UNCHANGED <<n_large, n_small, uni_idx, all_theses, file_rows,
                   ever_saved, csv_saves, closed_by_browser>>
    /\ CsvFrame

\* _scrape_university_by_year or _scrape_university_simple returns the theses of
\* the next university (the small phase then does "await context.close()"):
\* all_theses.extend(theses); "if all_theses" then saves.
ScrapeUniversity(count) ==
    /\ \/ csv_pc = "scrape" /\ NextIsLarge
       \/ csv_pc = "context"
    /\ uni_idx' = uni_idx + 1
    /\ all_theses' = all_theses \o ThesesOf(uni_idx + 1, count)
    /\ browser_contexts' = browser_contexts \ {SmallContext}
    /\ csv_pc' = IF all_theses' # <<>> THEN "save"
                 ELSE "scrape"
    /\ UNCHANGED <<n_large, n_small, file_rows, ever_saved, csv_saves,
                   closed_by_browser>>
    /\ CsvFrame

\* The scrape of the next university raises (browser.new_context, page.goto, a
\* selector timeout): no handler in the loops. A raising call of
\* _scrape_university_by_year can leave contexts open (left_open of them); in
\* the small phase the await of _scrape_university_simple raises before
\* "await context.close()" is reached.
ScrapeRaises(left_open) ==
    /\ \/ csv_pc = "scrape" /\ uni_idx < n_large + n_small
       \/ csv_pc = "context"
    /\ uni_idx' = uni_idx + 1
    /\ browser_contexts' =
           IF csv_pc = "scrape" /\ NextIsLarge THEN 1..left_open
           ELSE browser_contexts
    /\ csv_pc' = "raising"
    /\ UNCHANGED <<n_large, n_small, all_theses, file_rows, ever_saved,
                   csv_saves, closed_by_browser>>
    /\ CsvFrame

\* "finally: await browser.close()" on the way out of the exception
BrowserClose ==
    /\ csv_pc = "raising"
    /\ browser_contexts' = OpenAfterBrowserClose(browser_contexts)
    /\ closed_by_browser' =
           closed_by_browser + Cardinality(browser_contexts \ browser_contexts')
    /\ csv_pc' = "aborted"
    /\ UNCHANGED <<n_large, n_small, uni_idx, all_theses, file_rows,
                   ever_saved, csv_saves>>
    /\ CsvFrame

\* How one _save_csv can end: every row written; open(filename, 'w') raises and
\* the file is untouched; the write raises after k rows, the file having been
\* truncated by the open. The exception is caught and printed.
CsvOutcomes(theses) ==
    {<<"ok", Len(theses)>>, <<"open_failed", 0>>}
        \cup {<<"write_failed", k>> : k \in 0..(Len(theses) - 1)}

\* The file after _save_csv(theses): open(filename, 'w') truncates it, then the
\* rows of theses are written in order.
FileAfterSave(old, theses, outcome) ==
    IF outcome[1] = "open_failed" THEN old
    ELSE SubSeq(theses, 1, outcome[2])

\* self._save_csv(all_theses, output_filename, extract_pdf_urls)
SaveCsv(outcome) ==
    /\ csv_pc = "save"
    /\ file_rows' = FileAfterSave(file_rows, all_theses, outcome)
    /\ ever_saved' = IF outcome[1] = "ok"
                     THEN ever_saved \cup Range(file_rows')
                     ELSE ever_saved
    /\ csv_saves' = IF outcome[1] = "ok"
                    THEN <<csv_saves[1] + 1, csv_saves[2]>>
                    ELSE <<csv_saves[1], csv_saves[2] + 1>>
    /\ csv_pc' = "scrape"
    /\ UNCHANGED <<n_large, n_small, uni_idx, all_theses, ctxVars>>
    /\ CsvFrame

\* Both loops are over: the summary is printed and all_theses returned,
\* through "finally: await browser.close()".
CsvReturn ==
    /\ csv_pc = "scrape"
    /\ uni_idx = n_large + n_small
    /\ browser_contexts' = OpenAfterBrowserClose(browser_contexts)
    /\ closed_by_browser' =
           closed_by_browser + Cardinality(browser_contexts \ browser_contexts')
    /\ csv_pc' = "done"
    /\ UNCHANGED <<n_large, n_small, uni_idx, all_theses, file_rows,
                   ever_saved, csv_saves>>
    /\ CsvFrame

CsvInit ==
    /\ csv_pc = "scrape"
    /\ n_large \in 0..MaxUnis
    /\ n_small \in 0..MaxUnis
    /\ uni_idx = 0
    /\ all_theses = <<>>
    /\ file_rows = <<>>
    /\ ever_saved = {}
    /\ csv_saves = <<0, 0>>
    /\ browser_contexts = {}
    /\ closed_by_browser = 0

CsvIdle ==
    /\ csv_pc = "off"
    /\ n_large = 0
    /\ n_small = 0
    /\ uni_idx = 0
    /\ all_theses = <<>>
    /\ file_rows = <<>>
    /\ ever_saved = {}
    /\ csv_saves = <<0, 0>>
    /\ browser_contexts = {}
    /\ closed_by_browser = 0

CsvNext ==
    \/ NewSmallContext
    \/ \E count \in 0..MaxTheses : ScrapeUniversity(count)
    \/ \E left_open \in 0..MaxYearBatch : ScrapeRaises(left_open)
    \/ BrowserClose
    \/ \E outcome \in CsvOutcomes(all_theses) : SaveCsv(outcome)
    \/ CsvReturn

\* --------------------------------------------- _scrape_university_by_year
\* years = list(self.year_range), named 1..n_years
Years == [y \in 1..n_years |-> y]

\* batch_years = years[batch_start:batch_start + year_batch]
BatchYearsOverlap == Slice(Years, batch_start, year_batch + 1)

BatchYears == Slice(Years, batch_start, year_batch)

\* "for _ in batch_years: ctx = await browser.new_context(...);
\* contexts.append(ctx)", one iteration. After the last one the tasks are
\* built and gathered.
\* tasks = [self._scrape_single_year(contexts[i], uni_index, batch_years[i])
\*          for i in range(len(batch_years))]: one task per position of the list
TasksBuilt(tasks, batch_years) ==
    [y \in DOMAIN tasks |->
        tasks[y] + Cardinality({i \in 1..Len(batch_years) : batch_years[i] = y})]

OpenContext ==
    /\ yr_pc = "open"
    /\ Len(contexts) < Len(BatchYears)
    /\ LET y == BatchYears[Len(contexts) + 1]
       IN  /\ contexts' = Append(contexts, y)
           /\ open_contexts' = open_contexts \cup {y}
    /\ yr_pc' = IF Len(contexts') = Len(BatchYears) THEN "gather" ELSE "open"
    /\ IF Len(contexts') = Len(BatchYears)
       THEN /\ sub_batches' = Append(sub_batches, BatchYears)
            /\ year_tasks' = TasksBuilt(year_tasks, BatchYears)
       ELSE UNCHANGED shardVars
    /\ UNCHANGED <<n_years, year_batch, batch_start, close_idx, year_result,
                   yr_theses, pdfVars>>
    /\ YearFrame

\* browser.new_context raises: the loop that opens the contexts is outside the
\* try, the exception leaves the function with the contexts opened so far.
NewContextRaises ==
    /\ yr_pc = "open"
    /\ Len(contexts) < Len(BatchYears)
    /\ yr_pc' = "raised"
    /\ UNCHANGED <<n_years, year_batch, batch_start, contexts, close_idx,
                   open_contexts, year_result, yr_theses>>
    /\ UNCHANGED <<shardVars, pdfVars>>
    /\ YearFrame

\* How _scrape_single_year can end: theses extracted; a page without theses
\* (or uni_index out of range); an exception inside its try, caught, "return
\* []"; an exception outside of it (context.new_page, page.close), which gather
\* hands back as a result because of return_exceptions=True.
YearOutcomes == {"ok", "empty", "caught", "raised"}

YearReturn(outcome) ==
    CASE outcome = "ok" -> "record"
      [] outcome = "raised" -> "Exception"
      [] OTHER -> "[]"

\* One task of the gather finishes; the tasks of a sub-batch run concurrently.
YearDone(y, outcome) ==
    /\ yr_pc = "gather"
    /\ y \in Range(contexts)
    /\ year_result[y] = "pending"
    /\ year_result' = [year_result EXCEPT ![y] = YearReturn(outcome)]
    /\ UNCHANGED <<yr_pc, n_years, year_batch, batch_start, contexts,
                   close_idx, open_contexts, yr_theses>>
    /\ UNCHANGED <<shardVars, pdfVars>>
    /\ YearFrame

\* for year, result in zip(batch_years, results):
\*     if isinstance(result, Exception): continue
\*     if result: all_theses.extend(result)
CollectedAllOrNothing(batch_years, results) ==
    IF \E y \in Range(batch_years) : results[y] # "record" THEN <<>>
    ELSE batch_years

Collected(batch_years, results) ==
    SelectSeq(batch_years, LAMBDA y : results[y] = "record")

\* gather returns once every task of the sub-batch is done; the results are
\* collected and the "finally" starts closing the contexts.
CollectResults ==
    /\ yr_pc = "gather"
    /\ \A y \in Range(contexts) : year_result[y] # "pending"
    /\ yr_theses' = yr_theses \o Collected(BatchYears, year_result)
    /\ yr_pc' = "close"
    /\ UNCHANGED <<n_years, year_batch, batch_start, contexts, close_idx,
                   open_contexts, year_result>>
    /\ UNCHANGED <<shardVars, pdfVars>>
    /\ YearFrame

\* await ctx.close(): the context is no longer open
OpenAfterCloseLeaks(open, ctx) == open

OpenAfterClose(open, ctx) == open \ {ctx}

\* "finally: for ctx in contexts: await ctx.close()", one iteration.
CloseContext ==
    /\ yr_pc = "close"
    /\ close_idx < Len(contexts)
    /\ open_contexts' = OpenAfterClose(open_contexts, contexts[close_idx + 1])
    /\ close_idx' = close_idx + 1
    /\ UNCHANGED <<yr_pc, n_years, year_batch, batch_start, contexts,
                   year_result, yr_theses>>
    /\ UNCHANGED <<shardVars, pdfVars>>
    /\ YearFrame

\* ctx.close() raises inside the finally: the exception leaves the function,
\* the contexts after this one are not closed by it.
CloseRaises ==
    /\ yr_pc = "close"
    /\ close_idx < Len(contexts)
    /\ yr_pc' = "raised"
    /\ UNCHANGED <<n_years, year_batch, batch_start, contexts, close_idx,
                   open_contexts, year_result, yr_theses>>
    /\ UNCHANGED <<shardVars, pdfVars>>
    /\ YearFrame

\* After the loop: "if extract_pdfs and all_theses"
PdfDue == extract_pdfs /\ yr_theses # <<>>

\* The finally is over: asyncio.sleep(1), then the next
\* "for batch_start in range(0, len(years), year_batch)", or the return.
NextBatch ==
    /\ yr_pc = "close"
    /\ close_idx = Len(contexts)
    /\ batch_start' = batch_start + year_batch
    /\ contexts' = <<>>
    /\ close_idx' = 0
    /\ yr_pc' = IF batch_start' < n_years THEN "open"
                ELSE IF PdfDue THEN "pdf" ELSE "done"
    /\ UNCHANGED <<n_years, year_batch, open_contexts, year_result, yr_theses>>
    /\ UNCHANGED <<shardVars, pdfVars>>
    /\ YearFrame

\* The context of the PDF extraction, named apart from the year contexts.
PdfContext == 0

\* context = await browser.new_context(...) for the PDF extraction
PdfOpenContext ==
    /\ yr_pc = "pdf"
    /\ pdf_context' = "open"
    /\ yr_pc' = "extract"
    /\ UNCHANGED <<n_years, year_batch, batch_start, contexts, close_idx,
                   open_contexts, year_result, yr_theses, shardVars,
                   extract_pdfs>>
    /\ YearFrame

\* all_theses = await self._extract_pdf_urls_concurrent(context, ...);
\* await context.close(); return all_theses
PdfExtracted ==
    /\ yr_pc = "extract"
    /\ pdf_context' = "closed"
    /\ yr_pc' = "done"
    /\ UNCHANGED <<n_years, year_batch, batch_start, contexts, close_idx,
                   open_contexts, year_result, yr_theses, shardVars,
                   extract_pdfs>>
    /\ YearFrame

\* browser.new_context raises before the context exists, or the extraction
\* (or context.close) raises with the context open: there is no try around
\* these lines, the exception leaves the function.
PdfRaises ==
    /\ yr_pc \in {"pdf", "extract"}
    /\ yr_pc' = "raised"
    /\ UNCHANGED <<n_years, year_batch, batch_start, contexts, close_idx,
                   open_contexts, year_result, yr_theses, shardVars, pdfVars>>
    /\ YearFrame

\* The exception of the call is not handled in the loop of
\* scrape_all_universities: it reaches "finally: await browser.close()".
CallerFinally ==
    /\ yr_pc = "raised"
    /\ LET open == open_contexts
                       \cup (IF pdf_context = "open" THEN {PdfContext} ELSE {})
           after == OpenAfterBrowserClose(open)
       IN  /\ open_contexts' = after \ {PdfContext}
           /\ pdf_context' = IF pdf_context = "open" /\ PdfContext \notin after
                             THEN "closed" ELSE pdf_context
    /\ yr_pc' = "closed"
    /\ UNCHANGED <<n_years, year_batch, batch_start, contexts, close_idx,
                   year_result, yr_theses, shardVars, extract_pdfs>>
    /\ YearFrame

YearInit ==
    /\ yr_pc = "open"
    /\ n_years \in 1..MaxYears
    /\ year_batch \in 1..MaxYearBatch
    /\ batch_start = 0
    /\ contexts = <<>>
    /\ close_idx = 0
    /\ open_contexts = {}
    /\ year_result = [y \in 1..n_years |-> "pending"]
    /\ yr_theses = <<>>
    /\ sub_batches = <<>>
    /\ year_tasks = [y \in 1..n_years |-> 0]
    /\ extract_pdfs \in BOOLEAN
    /\ pdf_context = "none"

YearIdle ==
    /\ yr_pc = "off"
    /\ n_years = 0
    /\ year_batch = 1
    /\ batch_start = 0
    /\ contexts = <<>>
    /\ close_idx = 0
    /\ open_contexts = {}
    /\ year_result = <<>>
    /\ yr_theses = <<>>
    /\ sub_batches = <<>>
    /\ year_tasks = <<>>
    /\ extract_pdfs = FALSE
    /\ pdf_context = "none"

YearNext ==
    \/ OpenContext
    \/ NewContextRaises
    \/ \E y \in 1..n_years, outcome \in YearOutcomes : YearDone(y, outcome)
    \/ CollectResults
    \/ CloseContext
    \/ CloseRaises
    \/ NextBatch
    \/ PdfOpenContext
    \/ PdfExtracted
    \/ PdfRaises
    \/ CallerFinally

\* ------------------------------- get_journal_slugs_and_titles_by_scraping
Slugs == 1..MaxSlugs

ExplorePages == FirstExplorePage..MAX_JOURNAL_EXPLORE_PAGES

\* The slugs the links of one journal-list page can give, in page order; a
\* journal may be linked twice, or on two pages.
LinkLists == UNION {[1..k -> Slugs] : k \in 0..MaxLinks}

\* One iteration of "while page_num <= MAX_JOURNAL_EXPLORE_PAGES" whose
\* requests.get succeeds. No journal link on the page: break. Otherwise every
\* slug not in seen_slugs is appended and recorded, and page_num += 1; the loop
\* ends when page_num passes the last page.
FetchListPage(links) ==
    /\ disc_pc = "loop"
    /\ page_num <= MAX_JOURNAL_EXPLORE_PAGES
    /\ page_requests' = [page_requests EXCEPT ![page_num] = @ + 1]
    /\ page_links' = [page_links EXCEPT ![page_num] = <<"read", links>>]
    /\ IF links = <<>>
       THEN /\ disc_pc' = "done"
            /\ UNCHANGED <<page_num, journal_data, seen_slugs>>
       ELSE /\ LET f == FilterLoop(links, seen_slugs, journal_data)
               IN  /\ journal_data' = f.new
                   /\ seen_slugs' = f.seen
            /\ page_num' = page_num + 1
            /\ disc_pc' = IF page_num' <= MAX_JOURNAL_EXPLORE_PAGES
                          THEN "loop" ELSE "done"
    /\ DiscFrame

\* requests.get or raise_for_status raises: "except Exception: logger.error;
\* break". The page is not requested again; journal_data is returned as it is.
ListPageFails ==
    /\ disc_pc = "loop"
    /\ page_num <= MAX_JOURNAL_EXPLORE_PAGES
    /\ page_requests' = [page_requests EXCEPT ![page_num] = @ + 1]
    /\ page_links' = [page_links EXCEPT ![page_num] = <<"failed", <<>>>>]
    /\ disc_pc' = "done"
    /\ UNCHANGED <<page_num, journal_data, seen_slugs>>
    /\ DiscFrame

DiscInit ==
    /\ disc_pc = "loop"
    /\ page_num = FirstExplorePage
    /\ page_requests = [p \in ExplorePages |-> 0]
    /\ page_links = [p \in ExplorePages |-> <<"unread", <<>>>>]
    /\ journal_data = <<>>
    /\ seen_slugs = {}

DiscIdle ==
    /\ disc_pc = "off"
    /\ page_num = FirstExplorePage
    /\ page_requests = <<>>
    /\ page_links = <<>>
    /\ journal_data = <<>>
    /\ seen_slugs = {}

DiscNext ==
    \/ \E links \in LinkLists : FetchListPage(links)
    \/ ListPageFails

\* ------------------------------------------------------- specifications
\* ------------------------------------------ the search web applications
Sources == {"dergipark", "trdizin", "yoktez"}

\* What load_<source>_cache can return: the table read from the parquet file,
\* or pd.DataFrame() when the path is None, the file is missing, read_parquet
\* raises (every exception is caught), or the file holds no row.
LoadOutcomes == {"table", "empty"}

\* "if self._dergipark_cache is None" of the cache properties
CacheMissingOrEmpty(cache) == cache \in {"None", "empty"}

CacheMissing(cache) == cache = "None"

\* One read of the property <source>_cache on the engine state st: a load on
\* the first read, the stored value afterwards.
CacheProperty(st, source, outcome) ==
    IF CacheMissing(st.cache[source])
    THEN [cache |-> [st.cache EXCEPT ![source] = outcome],
          loads |-> [st.loads EXCEPT ![source] = @ + 1],
          read |-> st.read \cup {source}]
    ELSE [st EXCEPT !.read = @ \cup {source}]

\* search_<source>_local: "if self.<source>_cache.empty: return []", then the
\* reads of the property that build the mask and select the matches.
search_local(st, source, outcome) ==
    LET first == CacheProperty(st, source, outcome)
    IN  IF first.cache[source] = "empty" THEN first
        ELSE CacheProperty(first, source, outcome)

\* search_everything: the three searches one after the other; a search that
\* raises (it can on a loaded table only) ends the call.
RECURSIVE search_everything(_, _, _, _)
search_everything(st, order, out, raise_at) ==
    IF order = <<>> THEN [st |-> st, raised |-> FALSE]
    ELSE LET s == Head(order)
             after == search_local(st, s, out[s])
         IN  IF raise_at = s /\ after.cache[s] = "table"
             THEN [st |-> after, raised |-> TRUE]
             ELSE search_everything(after, Tail(order), out, raise_at)

\* The sources a handler of Main.py searches, in call order.
HandlerSources(handler) ==
    CASE handler = "Main.api_search" -> <<"dergipark", "trdizin", "yoktez">>
      [] handler = "Main.api_dergipark_only" -> <<"dergipark">>
      [] handler = "Main.api_trdizin_only" -> <<"trdizin">>
      [] handler = "Main.api_yoktez_only" -> <<"yoktez">>

MainHandlers ==
    {"Main.api_search", "Main.api_dergipark_only", "Main.api_trdizin_only",
     "Main.api_yoktez_only"}

\* A request whose handler ends before any call of the engine.
Rejected(handler, keyword_len, response) ==
    /\ last_request' = <<handler, keyword_len>>
    /\ last_response' = response
    /\ last_invoked' = FALSE
    /\ last_loads' = {}
    /\ UNCHANGED <<eng_cache, eng_loads, accessed>>

\* The handlers of create_unified_search_api. max_results is parsed first
\* (int() of a parameter that is no number raises, Flask answers 500), then
\* "if len(keyword) < 3: return jsonify({'error': ...})", then the engine is
\* called. An exception of the search ends in a 500 response: api_search
\* catches it, Flask answers for the other handlers.
MainRequest(handler, keyword_len, max_results_ok, out, raise_at) ==
    /\ web_pc = "serving"
    /\ requests < MaxRequests
    /\ requests' = requests + 1
    /\ IF ~max_results_ok
       THEN Rejected(handler, keyword_len, <<500, "error">>)
       ELSE IF keyword_len < MinKeyword
       THEN Rejected(handler, keyword_len, <<200, "error">>)
       ELSE LET r == search_everything(
                         [cache |-> eng_cache, loads |-> eng_loads, read |-> {}],
                         HandlerSources(handler), out, raise_at)
            IN  /\ eng_cache' = r.st.cache
                /\ eng_loads' = r.st.loads
                /\ accessed' = accessed \cup r.st.read
                /\ last_loads' = {s \in Sources : r.st.loads[s] > eng_loads[s]}
                /\ last_request' = <<handler, keyword_len>>
                /\ last_invoked' = TRUE
                /\ last_response' = IF r.raised THEN <<500, "error">>
                                    ELSE <<200, "results">>
    /\ UNCHANGED web_pc
    /\ WebFrame

ManusGetHandlers ==
    {"flask_manus.api_search", "flask_manus.api_dergipark",
     "flask_manus.api_trdizin", "flask_manus.api_yoktez"}

\* The engine of flask_manus.py is another object (SemanticAcademicSearchEngine):
\* a call of it reads no cache of the engine of Main.py.
ManusInvoked(handler, keyword_len, engine_raises) ==
    /\ last_request' = <<handler, keyword_len>>
    /\ last_invoked' = TRUE
    /\ last_loads' = {}
    /\ last_response' = IF engine_raises THEN <<500, "error">>
                        ELSE <<200, "results">>
    /\ UNCHANGED <<eng_cache, eng_loads, accessed>>

\* The GET handlers of flask_manus.py, all inside "try: ... except Exception:
\* return jsonify({'error': str(e)}), 500": int(max_results), then "if not
\* keyword" / "len(keyword) < 3" with a 400 response, then the engine.
ManusGet(handler, keyword_len, max_results_ok, engine_raises) ==
    /\ web_pc = "serving"
    /\ requests < MaxRequests
    /\ requests' = requests + 1
    /\ IF ~max_results_ok
       THEN Rejected(handler, keyword_len, <<500, "error">>)
       ELSE IF keyword_len = 0 \/ keyword_len < MinKeyword
       THEN Rejected(handler, keyword_len, <<400, "error">>)
       ELSE ManusInvoked(handler, keyword_len, engine_raises)
    /\ UNCHANGED web_pc
    /\ WebFrame

\* POST /search of flask_manus.py: data = request.get_json() (None without a
\* JSON body: data.get raises, 500), "if not keyword" and "if not sources"
\* with a 400 response, then unified_semantic_search.
ManusPost(has_body, keyword_len, has_sources, engine_raises) ==
    /\ web_pc = "serving"
    /\ requests < MaxRequests
    /\ requests' = requests + 1
    /\ LET handler == "flask_manus.unified_search_api"
       IN  IF ~has_body
           THEN Rejected(handler, keyword_len, <<500, "error">>)
           ELSE IF keyword_len = 0 \/ ~has_sources
           THEN Rejected(handler, keyword_len, <<400, "error">>)
           ELSE ManusInvoked(handler, keyword_len, engine_raises)
    /\ UNCHANGED web_pc
    /\ WebFrame

\* UnifiedAcademicSearchEngine.__init__: the paths are stored and the three
\* private cache attributes are None.
EngineConstructed ==
    /\ eng_cache = [s \in Sources |-> "None"]
    /\ eng_loads = [s \in Sources |-> 0]
    /\ accessed = {}
    /\ requests = 0
    /\ last_request = <<"none", 0>>
    /\ last_response = <<0, "none">>
    /\ last_invoked = FALSE
    /\ last_loads = {}

WebInit == web_pc = "serving" /\ EngineConstructed

WebIdle == web_pc = "off" /\ EngineConstructed

WebNext ==
    \/ \E handler \in MainHandlers, keyword_len \in 0..MaxKeyword,
          max_results_ok \in BOOLEAN :
            \E out \in [Range(HandlerSources(handler)) -> LoadOutcomes],
               raise_at \in Range(HandlerSources(handler)) \cup {"none"} :
                MainRequest(handler, keyword_len, max_results_ok, out, raise_at)
    \/ \E handler \in ManusGetHandlers, keyword_len \in 0..MaxKeyword,
          max_results_ok \in BOOLEAN, engine_raises \in BOOLEAN :
            ManusGet(handler, keyword_len, max_results_ok, engine_raises)
    \/ \E has_body \in BOOLEAN, keyword_len \in 0..MaxKeyword,
          has_sources \in BOOLEAN, engine_raises \in BOOLEAN :
            ManusPost(has_body, keyword_len, has_sources, engine_raises)

\* ------------------------------------------------ Language_detection.py
\* A text is a sequence of characters, a blank or a letter; None is NoneText.
Chars == {" ", "x"}

NoneText == <<"None">>

Texts == {NoneText} \cup UNION {[1..n -> Chars] : n \in 0..MaxText}

\* The literal "Unknown Title"
UnknownTitle == <<"Unknown Title">>

\* str.strip(): the text without its leading and trailing whitespace
RECURSIVE lstrip(_)
lstrip(text) ==
    IF text = <<>> THEN <<>>
    ELSE IF Head(text) = " " THEN lstrip(Tail(text)) ELSE text

RECURSIVE rstrip(_)
rstrip(text) ==
    IF text = <<>> THEN <<>>
    ELSE IF text[Len(text)] = " " THEN rstrip(SubSeq(text, 1, Len(text) - 1))
    ELSE text

strip(text) == rstrip(lstrip(text))

\* turkish_text.strip() if turkish_text else ""
Clean(text) == IF text = NoneText \/ text = <<>> THEN <<>> ELSE strip(text)

\* What langdetect's detect can do with a text: a language code, or raise.
DetectSays == {"tr", "en", "raise"}

\* _detect_language_safely: 'unknown' for a text shorter than the minimum
\* length or when detect raises, else what detect returned.
detect_language_safely(text, says) ==
    IF text = <<>> \/ Len(strip(text)) < MinDetectLen THEN "unknown"
    ELSE IF says = "raise" THEN "unknown"
    ELSE says

\* The if/elif chain of detect_and_prioritize_turkish
TitleChoiceEnglishFirst(turkish_clean, english_clean, turkish_lang, english_lang) ==
    IF english_clean # <<>> /\ english_lang = "tr" THEN english_clean
    ELSE IF turkish_clean # <<>> /\ turkish_lang = "tr" THEN turkish_clean
    ELSE IF english_clean # <<>> /\ english_lang # "unknown" THEN english_clean
    ELSE IF turkish_clean # <<>> /\ turkish_lang # "unknown" THEN turkish_clean
    ELSE IF english_clean # <<>> THEN english_clean
    ELSE IF turkish_clean # <<>> THEN turkish_clean
    ELSE UnknownTitle

TitleChoice(turkish_clean, english_clean, turkish_lang, english_lang) ==
    IF turkish_clean # <<>> /\ turkish_lang = "tr" THEN turkish_clean
    ELSE IF english_clean # <<>> /\ english_lang = "tr" THEN english_clean
    ELSE IF turkish_clean # <<>> /\ turkish_lang # "unknown" THEN turkish_clean
    ELSE IF english_clean # <<>> /\ english_lang # "unknown" THEN english_clean
    ELSE IF turkish_clean # <<>> THEN turkish_clean
    ELSE IF english_clean # <<>> THEN english_clean
    ELSE UnknownTitle

\* _fallback_turkish_detection
fallback_turkish_detection(english, turkish) ==
    LET turkish_clean == Clean(turkish)
        english_clean == Clean(english)
    IN  IF turkish_clean # <<>> THEN turkish_clean
        ELSE IF english_clean # <<>> THEN english_clean
        ELSE UnknownTitle

\* detect_and_prioritize_turkish(english_text, turkish_text): the fallback
\* when the import fails, else the detection of both cleaned texts and the
\* priority chain.
DetectAndPrioritize(says_turkish, says_english) ==
    /\ tl_pc = "call"
    /\ tl_fn = "detect"
    /\ IF ~langdetect_installed
       THEN /\ title_result' =
                   fallback_turkish_detection(english_text, turkish_text)
            /\ detected_lang' = <<"none", "none">>
       ELSE LET turkish_clean == Clean(turkish_text)
                english_clean == Clean(english_text)
                turkish_lang == detect_language_safely(turkish_clean, says_turkish)
                english_lang == detect_language_safely(english_clean, says_english)
            IN  /\ title_result' = TitleChoice(turkish_clean, english_clean,
                                               turkish_lang, english_lang)
                /\ detected_lang' = <<turkish_lang, english_lang>>
    /\ tl_pc' = "returned"
    /\ UNCHANGED <<tl_fn, english_text, turkish_text, langdetect_installed>>
    /\ TitleFrame

\* _fallback_turkish_detection called on its own
FallbackCall ==
    /\ tl_pc = "call"
    /\ tl_fn = "fallback"
    /\ title_result' = fallback_turkish_detection(english_text, turkish_text)
    /\ detected_lang' = <<"none", "none">>
    /\ tl_pc' = "returned"
    /\ UNCHANGED <<tl_fn, english_text, turkish_text, langdetect_installed>>
    /\ TitleFrame

TitleInit ==
    /\ tl_pc = "call"
    /\ tl_fn \in {"detect", "fallback"}
    /\ english_text \in Texts
    /\ turkish_text \in Texts
    /\ langdetect_installed \in BOOLEAN
    /\ detected_lang = <<"none", "none">>
    /\ title_result = <<>>

TitleIdle ==
    /\ tl_pc = "off"
    /\ tl_fn = "detect"
    /\ english_text = <<>>
    /\ turkish_text = <<>>
    /\ langdetect_installed = TRUE
    /\ detected_lang = <<"none", "none">>
    /\ title_result = <<>>

TitleNext ==
    \/ \E says_turkish \in DetectSays, says_english \in DetectSays :
          DetectAndPrioritize(says_turkish, says_english)
    \/ FallbackCall

\* The groups added after the scrapers' core, at rest.
\* ----------------------------------------- hybrid_scrape_articles, the pool
PoolFrame == UNCHANGED <<partVars, workVars, runVars, simpleVars, csvVars,
                         yearVars, discVars, bkVars, webVars, titleVars,
                         extractVars>>

\* "if not all_article_urls: return []"; otherwise chunk_size, url_chunks and
\* chunk_args, one worker call per chunk.
HybridCall ==
    /\ hp_pc = "call"
    /\ IF all_article_urls = <<>>
       THEN /\ hp_pc' = "done"
            /\ chunk_args' = <<>>
       ELSE /\ hp_pc' = "pool"
            /\ chunk_args' = Chunks(all_article_urls,
                                    ChunkSize(all_article_urls, hp_processes))
    /\ chunk_state' = [k \in 1..Len(chunk_args') |-> "running"]
    /\ chunk_returns' = [k \in 1..Len(chunk_args') |-> <<>>]
    /\ UNCHANGED <<all_article_urls, hp_processes, fetch_result, all_results>>
    /\ PoolFrame

\* The chunk an URL was handed to.
ChunkOfUrl(u) == CHOOSE k \in 1..Len(chunk_args) : u \in Range(chunk_args[k])

\* scrape_single_article_standalone(url) ends in the worker of its chunk, with
\* the record or with None. The workers run in parallel and the tasks of one
\* worker complete in any order.
FetchUrl(u, o) ==
    /\ hp_pc = "pool"
    /\ u \in Range(all_article_urls)
    /\ fetch_result[u] = "todo"
    /\ chunk_state[ChunkOfUrl(u)] = "running"
    /\ fetch_result' = [fetch_result EXCEPT ![u] = ReturnValue("article", o)]
    /\ UNCHANGED <<hp_pc, all_article_urls, hp_processes, chunk_args,
                   chunk_state, chunk_returns, all_results>>
    /\ PoolFrame

\* What a chunk whose event loop raised returns: "except Exception: return []"
ReturnOnRaise(chunk, results) == <<>>

\* results = await asyncio.gather(*tasks, return_exceptions=True): the results
\* in task order; successful_results keeps the records.
SuccessfulOfChunk(chunk, results) ==
    SelectSeq(chunk, LAMBDA u : results[u] = "record")

\* process_article_chunk_standalone returns what asyncio.run returned.
ChunkGathers(k) ==
    /\ hp_pc = "pool"
    /\ chunk_state[k] = "running"
    /\ \A u \in Range(chunk_args[k]) : fetch_result[u] # "todo"
    /\ chunk_state' = [chunk_state EXCEPT ![k] = "returned"]
    /\ chunk_returns' =
           [chunk_returns EXCEPT ![k] = SuccessfulOfChunk(chunk_args[k],
                                                          fetch_result)]
    /\ UNCHANGED <<hp_pc, all_article_urls, hp_processes, chunk_args,
                   fetch_result, all_results>>
    /\ PoolFrame

\* asyncio.run raises in the worker of chunk k (the session cannot be built or
\* closed, the loop fails), before, between or after the fetches of the chunk:
\* the except branch logs and returns [].
ChunkRaises(k) ==
    /\ hp_pc = "pool"
    /\ chunk_state[k] = "running"
    /\ chunk_state' = [chunk_state EXCEPT ![k] = "raised"]
    /\ chunk_returns' =
           [chunk_returns EXCEPT ![k] = ReturnOnRaise(chunk_args[k],
                                                      fetch_result)]
    /\ UNCHANGED <<hp_pc, all_article_urls, hp_processes, chunk_args,
                   fetch_result, all_results>>
    /\ PoolFrame

\* chunk_results = pool.map(...): the returns of all chunks, in chunk order;
\* "for chunk_result in chunk_results: all_results.extend(chunk_result)".
PoolMapFlatten ==
    /\ hp_pc = "pool"
    /\ \A k \in 1..Len(chunk_args) : chunk_state[k] # "running"
    /\ all_results' = Flatten(chunk_returns)
    /\ hp_pc' = "done"
    /\ UNCHANGED <<all_article_urls, hp_processes, chunk_args, fetch_result,
                   chunk_state, chunk_returns>>
    /\ PoolFrame

\* The caller passes URLs that went through the duplicate filter: no URL twice.
PoolInit ==
    /\ hp_pc = "call"
    /\ all_article_urls \in InjSeqs(1..MaxPoolUrls, MaxPoolUrls)
    /\ hp_processes \in 1..MaxProcs
    /\ chunk_args = <<>>
    /\ fetch_result = [u \in 1..MaxPoolUrls |-> "todo"]
    /\ chunk_state = <<>>
    /\ chunk_returns = <<>>
    /\ all_results = <<>>

PoolIdle ==
    /\ hp_pc = "off"
    /\ all_article_urls = <<>>
    /\ hp_processes = 1
    /\ chunk_args = <<>>
    /\ fetch_result = <<>>
    /\ chunk_state = <<>>
    /\ chunk_returns = <<>>
    /\ all_results = <<>>

PoolNext ==
    \/ HybridCall
    \/ \E u \in 1..MaxPoolUrls, o \in Outcomes : FetchUrl(u, o)
    \/ \E k \in 1..Len(chunk_args) : ChunkGathers(k)
    \/ \E k \in 1..Len(chunk_args) : ChunkRaises(k)
    \/ PoolMapFlatten

\* ------------------------------------------ _extract_pdf_urls_concurrent
ExtractFrame == UNCHANGED <<partVars, workVars, runVars, simpleVars, csvVars,
                            yearVars, discVars, bkVars, webVars, titleVars,
                            poolVars>>

\* batch = theses[i:i + batch_size], by position
BatchAt(i) == Slice([t \in 1..Len(ex_theses) |-> t], i, batch_size)

\* "for i in range(0, len(theses), batch_size)": the coroutines of the batch
\* are built and handed to asyncio.gather.
StartBatch ==
    /\ ex_pc = "batch"
    /\ ex_task' = [t \in 1..Len(ex_theses) |->
                      IF t \in Range(BatchAt(ex_i)) THEN "created"
                      ELSE ex_task[t]]
    /\ ex_pc' = "gather"
    /\ UNCHANGED <<ex_theses, batch_size, ex_i, page_outcome, pdf_url,
                   ex_results>>
    /\ ExtractFrame

\* extract_single: "if 'detail_url' not in thesis or not thesis['detail_url']"
\* sets pdf_url to '' and returns without a page.
NoDetailUrl(t) ==
    /\ ex_pc \in {"gather", "raised"}
    /\ ex_task[t] = "created"
    /\ ex_theses[t] = "missing"
    /\ pdf_url' = [pdf_url EXCEPT ![t] = ""]
    /\ ex_task' = [ex_task EXCEPT ![t] = "done"]
    /\ UNCHANGED <<ex_pc, ex_theses, batch_size, ex_i, page_outcome,
                   ex_results>>
    /\ ExtractFrame

\* page = await context.new_page()
NewPage(t) ==
    /\ ex_pc \in {"gather", "raised"}
    /\ ex_task[t] = "created"
    /\ ex_theses[t] = "url"
    /\ ex_task' = [ex_task EXCEPT ![t] = "open"]
    /\ UNCHANGED <<ex_pc, ex_theses, batch_size, ex_i, page_outcome, pdf_url,
                   ex_results>>
    /\ ExtractFrame

\* context.new_page() raises: the call is before the try, the exception
\* leaves extract_single.
NewPageRaises(t) ==
    /\ ex_pc \in {"gather", "raised"}
    /\ ex_task[t] = "created"
    /\ ex_theses[t] = "url"
    /\ ex_task' = [ex_task EXCEPT ![t] = "raised"]
    /\ UNCHANGED <<ex_pc, ex_theses, batch_size, ex_i, page_outcome, pdf_url,
                   ex_results>>
    /\ ExtractFrame

\* How the detail page ends: the link is found, the page has none, or goto,
\* sleep or content raise (the bare except).
DetailOutcomes == {"link", "nolink", "fails"}

\* thesis['pdf_url'] of the except branch
PdfUrlOnFailureUnset == "unset"

PdfUrlOnFailure == ""

\* thesis['pdf_url'] for the outcome of the page
PdfUrlOf(outcome) ==
    CASE outcome = "link" -> "link"
      [] outcome = "nolink" -> ""
      [] OTHER -> PdfUrlOnFailure

\* The try block of extract_single up to "return thesis" (or the except branch).
PageDone(t, outcome) ==
    /\ ex_pc \in {"gather", "raised"}
    /\ ex_task[t] = "open"
    /\ page_outcome' = [page_outcome EXCEPT ![t] = outcome]
    /\ pdf_url' = [pdf_url EXCEPT ![t] = PdfUrlOf(outcome)]
    /\ ex_task' = [ex_task EXCEPT ![t] = "extracted"]
    /\ UNCHANGED <<ex_pc, ex_theses, batch_size, ex_i, ex_results>>
    /\ ExtractFrame

\* finally: await page.close()
ClosePage(t) ==
    /\ ex_pc \in {"gather", "raised"}
    /\ ex_task[t] = "extracted"
    /\ ex_task' = [ex_task EXCEPT ![t] = "done"]
    /\ UNCHANGED <<ex_pc, ex_theses, batch_size, ex_i, page_outcome, pdf_url,
                   ex_results>>
    /\ ExtractFrame

\* batch_results = await asyncio.gather(...) returns once every coroutine of the
\* batch has returned, with the results in the order of the batch;
\* results.extend(batch_results); the next offset, or "return results".
GatherReturns ==
    /\ ex_pc = "gather"
    /\ \A t \in Range(BatchAt(ex_i)) : ex_task[t] = "done"
    /\ ex_results' = ex_results \o BatchAt(ex_i)
    /\ ex_i' = ex_i + batch_size
    /\ ex_pc' = IF ex_i' < Len(ex_theses) THEN "batch" ELSE "returned"
    /\ UNCHANGED <<ex_theses, batch_size, ex_task, page_outcome, pdf_url>>
    /\ ExtractFrame

\* gather (without return_exceptions) raises as soon as one coroutine raised;
\* the other coroutines of the batch are not cancelled by it and run on.
GatherRaises ==
    /\ ex_pc = "gather"
    /\ \E t \in Range(BatchAt(ex_i)) : ex_task[t] = "raised"
    /\ ex_pc' = "raised"
    /\ UNCHANGED <<ex_theses, batch_size, ex_i, ex_task, page_outcome, pdf_url,
                   ex_results>>
    /\ ExtractFrame

\* An empty list returns [] without a batch.
ExtractInit ==
    /\ ex_theses \in
           UNION {[1..n -> {"missing", "url"}] : n \in 0..MaxPdfTheses}
    /\ batch_size \in 1..MaxPdfBatch
    /\ ex_pc = IF ex_theses = <<>> THEN "returned" ELSE "batch"
    /\ ex_i = 0
    /\ ex_task = [t \in 1..Len(ex_theses) |-> "idle"]
    /\ page_outcome = [t \in 1..Len(ex_theses) |-> "none"]
    /\ pdf_url = [t \in 1..Len(ex_theses) |-> "unset"]
    /\ ex_results = <<>>

ExtractIdle ==
    /\ ex_pc = "off"
    /\ ex_theses = <<>>
    /\ batch_size = 1
    /\ ex_i = 0
    /\ ex_task = <<>>
    /\ page_outcome = <<>>
    /\ pdf_url = <<>>
    /\ ex_results = <<>>

ExtractNext ==
    \/ StartBatch
    \/ \E t \in 1..Len(ex_theses) : NoDetailUrl(t)
    \/ \E t \in 1..Len(ex_theses) : NewPage(t)
    \/ \E t \in 1..Len(ex_theses) : NewPageRaises(t)
    \/ \E t \in 1..Len(ex_theses), outcome \in DetailOutcomes :
          PageDone(t, outcome)
    \/ \E t \in 1..Len(ex_theses) : ClosePage(t)
    \/ GatherReturns
    \/ GatherRaises

RestIdle == BkIdle /\ WebIdle /\ TitleIdle /\ PoolIdle /\ ExtractIdle

vars == <<partVars, workVars, runVars, simpleVars, csvVars, yearVars, discVars,
          bkVars, webVars, titleVars, poolVars, extractVars>>

InitSimple ==
    SimpleInit /\ WorkIdle /\ RunIdle /\ CsvIdle /\ YearIdle /\ DiscIdle
    /\ RestIdle
SpecSimple == InitSimple /\ [][SimpleNext]_vars

InitCsv ==
    CsvInit /\ PartIdle /\ WorkIdle /\ RunIdle /\ SimpleIdle /\ YearIdle /\ DiscIdle
    /\ RestIdle
SpecCsv == InitCsv /\ [][CsvNext]_vars

InitRun ==
    RunInit /\ PartIdle /\ WorkIdle /\ SimpleIdle /\ CsvIdle /\ YearIdle /\ DiscIdle
    /\ RestIdle
SpecRun == InitRun /\ [][RunNext]_vars

InitPartition ==
    PartInit /\ WorkIdle /\ RunIdle /\ SimpleIdle /\ CsvIdle /\ YearIdle /\ DiscIdle
    /\ RestIdle
SpecPartition == InitPartition /\ [][PartNext]_vars

InitWorker ==
    WorkInit /\ PartIdle /\ RunIdle /\ SimpleIdle /\ CsvIdle /\ YearIdle /\ DiscIdle
    /\ RestIdle
SpecWorker == InitWorker /\ [][WorkNext]_vars

InitYear ==
    YearInit /\ PartIdle /\ WorkIdle /\ RunIdle /\ SimpleIdle /\ CsvIdle /\ DiscIdle
    /\ RestIdle
SpecYear == InitYear /\ [][YearNext]_vars

InitDiscovery ==
    DiscInit /\ PartIdle /\ WorkIdle /\ RunIdle /\ SimpleIdle /\ CsvIdle /\ YearIdle
    /\ RestIdle
SpecDiscovery == InitDiscovery /\ [][DiscNext]_vars

\* Every group of the scrapers' core at rest.
CoreIdle ==
    PartIdle /\ WorkIdle /\ RunIdle /\ SimpleIdle /\ CsvIdle /\ YearIdle
    /\ DiscIdle

InitBackup == BkInit /\ CoreIdle /\ WebIdle /\ TitleIdle /\ PoolIdle /\ ExtractIdle
SpecBackup == InitBackup /\ [][BkNext]_vars

InitWeb == WebInit /\ CoreIdle /\ BkIdle /\ TitleIdle /\ PoolIdle /\ ExtractIdle
SpecWeb == InitWeb /\ [][WebNext]_vars

InitTitle == TitleInit /\ CoreIdle /\ BkIdle /\ WebIdle /\ PoolIdle /\ ExtractIdle
SpecTitle == InitTitle /\ [][TitleNext]_vars

InitPool == PoolInit /\ CoreIdle /\ BkIdle /\ WebIdle /\ TitleIdle /\ ExtractIdle
SpecPool == InitPool /\ [][PoolNext]_vars

InitExtract ==
    ExtractInit /\ CoreIdle /\ BkIdle /\ WebIdle /\ TitleIdle /\ PoolIdle
SpecExtract == InitExtract /\ [][ExtractNext]_vars

\* Every place where the YOK Tez scraper opens browser contexts: the loops of
\* scrape_all_universities and one call of _scrape_university_by_year. Every
\* await returns or raises in the end, and the event loop then runs the
\* coroutine on: a step that can be taken is taken.
InitContexts ==
    \/ InitCsv /\ n_large + n_small <= MaxCtxUnis
    \/ InitYear
ContextsNext == CsvNext \/ YearNext
SpecContexts ==
    InitContexts /\ [][ContextsNext]_vars /\ WF_vars(ContextsNext)

\* Both ingest paths: the journal loop and the page pool.
InitIngest == InitRun \/ InitSimple
IngestNext == RunNext \/ SimpleNext
SpecIngest == InitIngest /\ [][IngestNext]_vars

\* Both places where the units of a chunk or sub-batch are fetched
\* concurrently: the article chunk of a worker and the years of a sub-batch.
InitUnits == InitWorker \/ InitYear
UnitsNext == WorkNext \/ YearNext
SpecUnits == InitUnits /\ [][UnitsNext]_vars

\* ------------------------------------------------------------------ C1
\* C1: partition completeness. For every non-empty work list and every process
\* count N >= 1 the chunks are pairwise disjoint and their concatenation in
\* chunk order is the input list: no work unit is dropped or duplicated.
C1_PartitionComplete ==
    part_pc = "done" =>
        /\ Flatten(url_chunks) = work_list
        /\ \A a, b \in 1..Len(url_chunks) :
              a # b => Range(url_chunks[a]) \cap Range(url_chunks[b]) = {}

\* A list longer than the process count has been split into several chunks.
C1_Witness ==
    /\ part_pc = "done"
    /\ Len(url_chunks) >= 2
    /\ Len(work_list) > num_processes

\* ------------------------------------------------------------------ C2
\* C2: within one worker process the number of fetches inside the
\* semaphore-guarded section never exceeds the semaphore limit, for any number
\* of URLs (or issues) in the chunk and any interleaving of the coroutines.
C2_InFlightBounded ==
    wk_pc # "off" =>
        /\ Cardinality(InFlight) <= max_concurrent
        /\ sem_value = max_concurrent - Cardinality(InFlight)

\* The semaphore is exhausted while another task still waits to enter.
C2_Witness ==
    /\ wk_pc = "run"
    /\ Cardinality(InFlight) = max_concurrent
    /\ \E u \in Tasks : task_pc[u] = "created"

\* ------------------------------------------------------------------ C3
\* C3: dedup over a whole run. The first discovery of an article URL is
\* accepted and recorded in the seen set, every later discovery of it (in the
\* same journal or a later one) is rejected: no URL is dispatched for scraping
\* or handed to the persistence layer more than once.
C3_DedupOncePerUrl ==
    run_pc # "off" =>
        \A u \in Urls :
            /\ dispatched[u] <= 1
            /\ passed[u] <= 1
            /\ u \in rejected => u \in seen_article_urls
            /\ run_pc # "scrape" => (dispatched[u] = 1 <=> u \in seen_article_urls)

\* A URL that was discovered again and turned down has reached save_batch once.
C3_Witness ==
    /\ run_pc = "done"
    /\ \E u \in rejected : dispatched[u] = 1 /\ passed[u] = 1

\* ------------------------------------------------------------------ C4
\* C4: no record is lost between the workers and persistence. When the run
\* ends normally every record a worker chunk returned has been passed to
\* save_batch exactly once, by a threshold flush or by the final flush.
C4_EveryRecordPassedOnce ==
    /\ run_pc = "done" => \A u \in Urls : passed[u] = returned[u]
    /\ sp_pc = "done" => \A p \in Pages : sp_passed[p] = ReturnedByChunks(p)

\* A run with a threshold flush and a final flush of the remainder.
C4_Witness ==
    /\ run_pc = "done"
    /\ save_calls >= 2
    /\ all_articles_data # <<>>
    /\ \E u \in Urls : returned[u] = 1 /\ u \notin Range(all_articles_data)

C6_FailedFlushKeepsRecords ==
    run_pc # "off" =>
        \A u \in Urls :
            returned[u] > 0 => (u \in durable \/ u \in Range(all_articles_data))

\* ------------------------------------------------------------------ C7
\* C7: a flush never rewrites what is already persisted; a flush that fails
\* part-way leaves every record persisted by an earlier flush intact: every
\* row a completed save had left in the output file is still in the file.
C7_EarlierRowsIntact ==
    csv_pc # "off" => \A r \in ever_saved : r \in Range(file_rows)

\* ------------------------------------------------------------------ C8
\* C8: resume. The Targets that the checkpoint of an earlier run marks as done
\* are excluded from the discovered list and not crawled again.
C8_DoneTargetsNotCrawled ==
    run_pc # "off" => \A j \in 1..prior_done : j > j_idx

C10_RetryBound ==
    \A u \in Tasks :
        (task_pc[u] = "done" /\ task_outcome[u] = "exception")
            => attempts[u] = retry_count + 1

\* ----------------------------------------------------------------- C11
\* C11: the orchestrator never aborts on one Target's failure. When the scrape
\* of one university raises, the run goes on with the next university: a run
\* that has stopped has handled every university and stopped by returning.
C11_RunSurvivesTargetFailure ==
    csv_pc \in {"done", "aborted"} =>
        /\ csv_pc = "done"
        /\ uni_idx = n_large + n_small

\* ----------------------------------------------------------------- C12
\* C12: unit-level failure isolation. A unit whose fetch fails (exception,
\* timeout, non-200 status) yields no record, for that unit only: the records
\* of a chunk or of a university's sub-batches are exactly those of the units
\* whose fetch succeeded, in every interleaving.
C12_FailureIsolated ==
    /\ wk_pc = "gathered" =>
           {u \in Range(successful_results) : task_result[u] = "record"}
               = {u \in Tasks : task_outcome[u] = "ok"}
    /\ yr_pc = "done" =>
           Range(yr_theses) = {y \in 1..n_years : year_result[y] = "record"}

\* A university of two sub-batches where a year raised, a year was caught
\* failing and a later year still gave its theses.
C12_Witness ==
    /\ yr_pc = "done"
    /\ batch_start > year_batch
    /\ \E y \in 1..n_years : year_result[y] = "Exception"
    /\ \E y \in 2..n_years : year_result[y] = "record" /\ year_result[y - 1] # "record"

\* ----------------------------------------------------------------- C13
\* C13: sub-batches run strictly one after the other. Every context opened for
\* a sub-batch is closed before a context of the next one is opened: the open
\* contexts belong to the current sub-batch and are at most year_batch, also
\* when year scrapes of a sub-batch fail.
C13_SubBatchesSequential ==
    yr_pc # "off" =>
        /\ Cardinality(open_contexts) <= year_batch
        /\ open_contexts \subseteq Range(BatchYears)

\* The second sub-batch is fully open after a year of the first one raised.
C13_Witness ==
    /\ yr_pc = "gather"
    /\ batch_start > 0
    /\ Cardinality(open_contexts) = year_batch
    /\ \E y \in 1..batch_start : year_result[y] = "Exception"

\* ----------------------------------------------------------------- C14
\* C14: balanced partition. Chunks are sized by estimated unit count, not by
\* number of items: the weights of the heaviest and the lightest chunk differ
\* by less than the configured imbalance tolerance.
C14_ChunkWeightsBalanced ==
    part_pc = "done" =>
        \A a, b \in 1..Len(url_chunks) :
            ChunkWeight(url_chunks[a]) - ChunkWeight(url_chunks[b])
                < imbalance_tolerance

\* ----------------------------------------------------------------- C15
\* C15: chunk count. A work list with at least N items, N the process count,
\* is split into exactly N chunks.
C15_OneChunkPerProcess ==
    (part_pc = "done" /\ Len(work_list) >= num_processes)
        => Len(url_chunks) = num_processes

C17_CompletionOrderDelivery ==
    wk_pc = "gathered" =>
        successful_results =
            SelectSeq(completion_order,
                      LAMBDA u : u \in Range(successful_results))

\* ----------------------------------------------------------------- C18
\* C18: discovery degrades instead of aborting. A journal-list page whose fetch
\* failed is requested again, a bounded number of times, before discovery gives
\* up and returns the Targets of the pages fetched so far.
C18_FailedPageRetried ==
    disc_pc = "done" =>
        \A p \in ExplorePages :
            page_links[p][1] = "failed" => page_requests[p] > 1

\* ----------------------------------------------------------------- C19
\* C19: a run whose discovery produced zero Targets ends in a fatal failure; it
\* does not finish as a successful, empty run.
C19_ZeroTargetsIsFatal ==
    run_pc = "done" => journals_found > 0

\* ----------------------------------------------------------------- C20
\* C20: a page whose fetch failed is left out of the completion count a chunk
\* reports: the pages-done counter of every chunk result is the number of
\* pages of the chunk that were fetched successfully.
C20_PagesDoneCountsSuccesses ==
    sp_pc \in {"results", "done"} =>
        \A k \in 1..Len(chunk_results) :
            chunk_results[k][2] =
                Cardinality({i \in 1..Len(url_chunks[k]) :
                                page_state[url_chunks[k][i]] # "failed"})

\* ----------------------------------------------------------------- C21
\* C21: a fetched page with no extractable record is counted as an empty unit,
\* apart from the failed units: in what an article chunk hands back, a unit
\* whose page was fetched and held no record differs from a unit whose fetch
\* failed.
C21_EmptyToldFromFailed ==
    (wk_pc = "gathered" /\ wk_kind = "article") =>
        \A u, v \in Tasks :
            (task_outcome[u] = "empty" /\ task_outcome[v] = "exception") =>
                \/ task_result[u] # task_result[v]
                \/ (u \in Range(successful_results))
                       # (v \in Range(successful_results))

\* ----------------------------------------------------------------- C22
\* C22: politeness across the whole run. Any two consecutive requests to the
\* host, whichever worker processes issue them, are separated by the configured
\* delay: no request starts right after another request, without a delay step
\* between the two.
C22_RequestsSpaced ==
    sp_pc # "off" => ~unspaced

\* ----------------------------------------------------------------- C23
\* C23: a backup copy is created after every 10th flush of the batch manager,
\* whatever the sizes of the flushed batches: with the period scaled to
\* BackupEvery, every flush whose number is a multiple of BackupEvery has had
\* its create_backup call.
C23_BackupEveryNthFlush ==
    bk_pc = "flushing" =>
        \A n \in 1..flushes : (n % BackupEvery = 0) => n \in backups

\* ----------------------------------------------------------------- C24
\* C24: lazy cache loading. Constructing the engine loads nothing; each of the
\* three source caches is loaded on the first read of its property and at most
\* once for the instance, also when that load produced an empty table.
C24_LoadedOnceOnFirstAccess ==
    web_pc = "serving" =>
        /\ requests = 0 => \A s \in Sources : eng_loads[s] = 0
        /\ \A s \in Sources :
              /\ eng_loads[s] = (IF s \in accessed THEN 1 ELSE 0)
              /\ (eng_cache[s] = "None") = (s \notin accessed)

\* A cache whose only load gave an empty table is read again by a later
\* request.
C24_Witness ==
    /\ web_pc = "serving"
    /\ requests >= 2
    /\ last_request[1] = "Main.api_dergipark_only"
    /\ last_invoked
    /\ "dergipark" \notin last_loads
    /\ eng_cache["dergipark"] = "empty"
    /\ eng_loads["dergipark"] = 1

\* ----------------------------------------------------------------- C25
\* C25: search request validation. A request whose keyword is shorter than 3
\* characters, the empty keyword included, gets an error response, and its
\* handler never calls the search engine, so the request loads no cache.
C25_ShortKeywordRejected ==
    (web_pc = "serving" /\ requests > 0 /\ last_request[2] < MinKeyword) =>
        /\ last_response[2] = "error"
        /\ ~last_invoked
        /\ last_loads = {}

\* ----------------------------------------------------------------- C26
\* C26: title selection. Both functions return "Unknown Title" exactly when
\* both inputs are empty or whitespace-only; otherwise they return one of the
\* inputs with its surrounding whitespace removed, and that is the
\* Turkish-position text whenever it is non-empty and was detected as Turkish,
\* or detection is unavailable.
C26_TitleSelection ==
    tl_pc = "returned" =>
        LET Blank(text) ==
                text = NoneText \/ \A i \in 1..Len(text) : text[i] = " "
            Stripped(r, text) ==
                /\ text # NoneText
                /\ r # <<>>
                /\ r[1] # " "
                /\ r[Len(r)] # " "
                /\ \E i \in 1..(Len(text) - Len(r) + 1) :
                      /\ r = SubSeq(text, i, i + Len(r) - 1)
                      /\ \A k \in 1..Len(text) :
                            (k < i \/ k >= i + Len(r)) => text[k] = " "
            unavailable == tl_fn = "fallback" \/ ~langdetect_installed
        IN  /\ (title_result = UnknownTitle)
                  = (Blank(english_text) /\ Blank(turkish_text))
            /\ title_result # UnknownTitle =>
                  \/ Stripped(title_result, english_text)
                  \/ Stripped(title_result, turkish_text)
            /\ (~Blank(turkish_text)
                    /\ (unavailable \/ detected_lang[1] = "tr")) =>
                  Stripped(title_result, turkish_text)

\* Both texts are present and differ, the text of the English position is
\* detected as Turkish too, and the Turkish-position text is returned.
C26_Witness ==
    /\ tl_pc = "returned"
    /\ tl_fn = "detect"
    /\ langdetect_installed
    /\ detected_lang = <<"tr", "tr">>
    /\ Clean(english_text) # Clean(turkish_text)
    /\ turkish_text[1] = " "
    /\ title_result = Clean(turkish_text)

\* ----------------------------------------------------------------- C27
\* C27: year sharding covers every year exactly once. For every year_batch >= 1
\* the sub-batches, in the order they are built, are consecutive slices of the
\* year list in ascending order; every sub-batch except possibly the last has
\* exactly year_batch years; no year gets a second _scrape_single_year task,
\* and once the loop is over every year has had exactly one.
C27_YearShardingPartition ==
    yr_pc # "off" =>
        LET covered == Flatten(sub_batches)
        IN  /\ Len(covered) <= n_years
            /\ covered = SubSeq(Years, 1, Len(covered))
            /\ \A k \in 1..Len(sub_batches) :
                  /\ sub_batches[k] # <<>>
                  /\ \/ Len(sub_batches[k]) = year_batch
                     \/ (k = Len(sub_batches) /\ covered = Years
                           /\ Len(sub_batches[k]) < year_batch)
            /\ \A y \in 1..n_years :
                  year_tasks[y] = (IF y \in Range(covered) THEN 1 ELSE 0)
            /\ batch_start >= n_years => covered = Years

\* A year list of two sub-batches, the last one shorter than year_batch, run
\* to the end.
C27_Witness ==
    /\ yr_pc = "done"
    /\ Len(sub_batches) = 2
    /\ Len(sub_batches[1]) = year_batch
    /\ Len(sub_batches[2]) < year_batch
    /\ \A y \in 1..n_years : year_tasks[y] = 1

\* ----------------------------------------------------------------- C28
\* C28: every browser context the scraper opens is closed in the end, on every
\* path, also when the scrape of a university raises: the per-university
\* context of the small phase, the year contexts of a sub-batch and the context
\* of the PDF extraction.
C28_ContextsClosedInTheEnd ==
    \A ctx \in SmallContext..MaxYears :
        (\/ ctx \in browser_contexts
         \/ ctx \in open_contexts
         \/ (ctx = PdfContext /\ pdf_context = "open"))
            ~> (/\ ctx \notin browser_contexts
                /\ ctx \notin open_contexts
                /\ ~(ctx = PdfContext /\ pdf_context = "open"))

\* The scrape of a small university raised with its context open, and the
\* context was closed on the way out.
C28_Witness ==
    /\ csv_pc = "aborted"
    /\ uni_idx > n_large
    /\ closed_by_browser = 1
    /\ browser_contexts = {}

\* ----------------------------------------------------------------- C29
\* C29: every journal the main loop starts is also finished before the next
\* one is started, and the checkpoint and batch-threshold tests are made after
\* every journal, a journal without a new article URL included. The two tests
\* are made once after each finish_journal and nowhere else, so that
\* processed_journals counts the journals they were made after: whenever the
\* loop is between two journals, or over, every journal started so far has been
\* finished and followed by the two tests.
C29_StartedJournalsFinished ==
    run_pc \in {"loop", "done"} => processed_journals = j_idx

\* ----------------------------------------------------------------- C30
\* C30: an article URL is in the dedup set only once a record for it has been
\* obtained; a URL whose fetch failed is not marked as seen, and a later
\* discovery of it in the same run is dispatched again. Whenever the loop is
\* between two journals, or over, every URL of seen_article_urls has a record,
\* and no URL without a record was turned down by the duplicate filter.
C30_SeenOnlyWithRecord ==
    run_pc \in {"loop", "done"} =>
        /\ \A u \in seen_article_urls : returned[u] > 0
        /\ \A u \in rejected : returned[u] > 0

\* ----------------------------------------------------------------- C31
\* C31: whatever the interleaving of the fetches and of the worker processes,
\* the list hybrid_scrape_articles returns holds the records of exactly the
\* URLs that were scraped successfully, in the order those URLs have in the
\* input list.
C31_ResultIsSuccessesInInputOrder ==
    hp_pc = "done" =>
        all_results =
            SelectSeq(all_article_urls, LAMBDA u : fetch_result[u] = "record")

\* ----------------------------------------------------------------- C34
\* C34: when the event loop of one worker process raises, hybrid_scrape_articles
\* still returns the records of every other chunk, and the records the failing
\* chunk had fetched before the error are in the result as well: once the
\* function has returned, every URL with a record is in the returned list,
\* in a chunk that returned and in a chunk that raised alike.
C34_RaisedChunkKeepsFetched ==
    hp_pc = "done" =>
        \A k \in 1..Len(chunk_args) :
            \A u \in Range(chunk_args[k]) :
                fetch_result[u] = "record" => u \in Range(all_results)

\* ----------------------------------------------------------------- C32
\* C32: for a non-empty work list of length L and N >= 1 processes, the
\* partitioning yields at most N chunks, no chunk is empty, and every chunk but
\* the last has exactly ceil(L / N) items (in hybrid_scrape_articles and in
\* scrape_all_articles_SIMPLE alike).
C32_ChunkShape ==
    (part_pc = "done" /\ work_list # <<>>) =>
        LET L == Len(work_list)
            N == num_processes
            full == IF L % N = 0 THEN L \div N ELSE (L \div N) + 1
        IN  /\ Len(url_chunks) <= N
            /\ \A k \in 1..Len(url_chunks) : Len(url_chunks[k]) >= 1
            /\ \A k \in 1..(Len(url_chunks) - 1) : Len(url_chunks[k]) = full

\* A list that does not divide evenly: the last chunk is shorter than the
\* others.
C32_Witness ==
    /\ part_pc = "done"
    /\ Len(url_chunks) >= 2
    /\ Len(url_chunks[Len(url_chunks)]) < Len(url_chunks[1])

\* ----------------------------------------------------------------- C33
\* C33: with nothing to crawl (max_pages = 0 in scrape_all_articles_SIMPLE, an
\* empty URL list in hybrid_scrape_articles) the partitioning step completes
\* without an error and dispatches no chunk.
C33_EmptyListPartitions ==
    (part_pc # "call" /\ work_list = <<>>) =>
        /\ part_pc # "error"
        /\ url_chunks = <<>>

\* ----------------------------------------------------------------- C35
\* C35: scrape_all_articles_SIMPLE returns the articles it scraped: after a run
\* in which articles were extracted and handed to save_batch, the returned
\* list is not empty and main reports success, not "annihilation failed".
C35_ReturnsScrapedArticles ==
    (sp_pc = "reported" /\ \E p \in Pages : sp_passed[p] > 0) =>
        /\ sp_return # <<>>
        /\ main_report = "success"

\* ----------------------------------------------------------------- C36
\* C36: _extract_pdf_urls_concurrent keeps the thesis list: what it returns has
\* one entry per input thesis, in input order, each with a pdf_url, which is
\* empty when the thesis has no detail URL, when the page fails and when the
\* page has no link; the batches run one after another (no coroutine of a later
\* batch exists before every coroutine of the earlier batches has returned), at
\* most batch_size detail pages are open at a time, and once the function has
\* returned every page it opened is closed.
C36_ThesisListPreserved ==
    ex_pc # "off" =>
        LET n == Len(ex_theses)
            BatchNo(t) == (t - 1) \div batch_size
        IN  /\ ex_pc = "returned" =>
                /\ ex_results = [t \in 1..n |-> t]
                /\ \A t \in 1..n :
                      /\ pdf_url[t] # "unset"
                      /\ ex_theses[t] = "missing" => pdf_url[t] = ""
                      /\ page_outcome[t] \in {"nolink", "fails"} =>
                             pdf_url[t] = ""
                      /\ page_outcome[t] = "link" => pdf_url[t] = "link"
                      /\ ex_task[t] = "done"
            /\ Cardinality({t \in 1..n : ex_task[t] \in {"open", "extracted"}})
                   <= batch_size
            /\ \A t, later \in 1..n :
                  (BatchNo(t) < BatchNo(later) /\ ex_task[later] # "idle") =>
                      ex_task[t] = "done"

\* Two batches, with a thesis without a detail URL, a page that failed and a
\* page that gave its link.
C36_Witness ==
    /\ ex_pc = "returned"
    /\ Len(ex_theses) > batch_size
    /\ \E t \in 1..Len(ex_theses) : ex_theses[t] = "missing"
    /\ \E t \in 1..Len(ex_theses) : page_outcome[t] = "fails"
    /\ \E t \in 1..Len(ex_theses) : page_outcome[t] = "link"

====
